---------------------------- MODULE Spec2Model ----------------------------
(***************************************************************************)
(* A model of the trade ledger (src/trade_setup.py), the trade manager     *)
(* (src/trade_manager.py), the risk manager (src/risk_manager.py), the     *)
(* trading engine loop (src/trading_engine.py), the data collector         *)
(* (src/data_collector.py), the multi-account manager                      *)
(* (src/multi_account_manager.py), the backtester (src/backtesting.py) and *)
(* generate_signal of the strategies (src/strategy.py,                     *)
(* src/advanced_strategies.py, src/chart_patterns.py).                     *)
(*                                                                         *)
(* Numbers.  A Python float is modelled by the exact rational it stands    *)
(* for, a record [n |-> numerator, d |-> denominator] in lowest terms with *)
(* d > 0.  round(x, k) is modelled by RRound(x, k): the decimal with k     *)
(* places nearest to x, a tie going to the even last digit.  The inputs    *)
(* are small decimals, for which the float arithmetic of the code and the  *)
(* exact arithmetic of the model agree up to the last place kept.          *)
(* None is the record [n |-> 0, d |-> 0], which is no rational.            *)
(***************************************************************************)
EXTENDS Integers, Sequences, FiniteSets, TLC

(***************************************************************************)
(* Exact arithmetic                                                        *)
(***************************************************************************)
Abs(x) == IF x < 0 THEN -x ELSE x

RECURSIVE Gcd(_, _)
Gcd(a, b) == IF b = 0 THEN a ELSE Gcd(b, a % b)

R(num, den) ==
    LET g == Gcd(Abs(num), den)
    IN  [n |-> num \div g, d |-> den \div g]

RInt(k) == [n |-> k, d |-> 1]

Zero == RInt(0)

None == [n |-> 0, d |-> 0]

RNeg(x) == [n |-> -x.n, d |-> x.d]

RAbs(x) == [n |-> Abs(x.n), d |-> x.d]

RAdd(x, y) ==
    LET g == Gcd(x.d, y.d)
    IN  R(x.n * (y.d \div g) + y.n * (x.d \div g), (x.d \div g) * y.d)

RSub(x, y) == RAdd(x, RNeg(y))

RMul(x, y) ==
    LET g1 == Gcd(Abs(x.n), y.d)
        g2 == Gcd(Abs(y.n), x.d)
    IN  [n |-> (x.n \div g1) * (y.n \div g2), d |-> (x.d \div g2) * (y.d \div g1)]

RInv(x) == IF x.n > 0 THEN [n |-> x.d, d |-> x.n] ELSE [n |-> -x.d, d |-> -x.n]

RDiv(x, y) == RMul(x, RInv(y))

RLt(x, y) ==
    LET g == Gcd(x.d, y.d)
    IN  x.n * (y.d \div g) < y.n * (x.d \div g)

RLe(x, y) == ~RLt(y, x)

RMin(x, y) == IF RLt(y, x) THEN y ELSE x

RECURSIVE Pow10(_)
Pow10(k) == IF k = 0 THEN 1 ELSE 10 * Pow10(k - 1)

\* The first k decimal digits of r / d (0 <= r < d) as a number f, and what is left.
RECURSIVE LongDiv(_, _, _)
LongDiv(r, d, k) ==
    IF k = 0 THEN [f |-> 0, r |-> r]
    ELSE LET p == LongDiv(r, d, k - 1)
         IN  [f |-> p.f * 10 + (p.r * 10) \div d, r |-> (p.r * 10) % d]

\* round(x, k) of a non-negative x: half to even.
RRoundNonNeg(x, k) ==
    LET w    == x.n \div x.d
        p    == LongDiv(x.n % x.d, x.d, k)
        last == IF k = 0 THEN w ELSE p.f
        up   == \/ 2 * p.r > x.d
                \/ 2 * p.r = x.d /\ last % 2 = 1
        f    == IF up THEN p.f + 1 ELSE p.f
    IN  IF k = 0
        THEN RInt(IF up THEN w + 1 ELSE w)
        ELSE RAdd(RInt(w), R(f, Pow10(k)))

RRound(x, k) == IF x.n < 0 THEN RNeg(RRoundNonNeg(RNeg(x), k)) ELSE RRoundNonNeg(x, k)


(***************************************************************************)
(* Bounds and input sets                                                   *)
(***************************************************************************)
\* The most trades the ledger is let grow to.
MaxTrades == 1

\* Prices a caller passes (entry, stop, target, fill, current and exit prices).
Prices == {RInt(0), RInt(98), RInt(100)}

\* quantity argument of create_trade: None asks for the automatic size.
Quantities == {None, RInt(2)}

\* Balances set_account_balance is called with.
Balances == {RInt(100)}

\* risk_percent argument of create_trade (its default).
RiskPercents == {RInt(1)}

PositionTypes == {"LONG", "SHORT"}

(***************************************************************************)
(* State                                                                   *)
(***************************************************************************)
VARIABLES
    account_balance,    \* TradeSetup.account_balance
    trades,             \* TradeSetup.trades: the ledger, a sequence of trade records
    active_positions,   \* TradeSetup.active_positions: the ids of the trades in the list
    orders,             \* the orders the broker client of the TradeManager has accepted
    call,               \* the most recent call: its name and the exception it raised
    req,                \* the arguments of the most recent create_trade call
    rm,                 \* the RiskManager object
    today,              \* the calendar date datetime.now() falls on, as a day number
    last_update_day,    \* the date of the most recent update_daily_pnl call (-1: none yet)
    rcall,              \* the most recent RiskManager call: name, arguments, return value
    positions,          \* TradingEngine.positions
    iter,               \* what the most recent pass of the TradingEngine loop did
    loop,               \* TradingEngine.run: where it is, and TradingEngine.is_running
    report,             \* what the most recent get_trade_summary or get_dashboard returned
    is_running,         \* DataCollector.is_running
    thread,             \* DataCollector.thread: the thread start() made last (0: None)
    symbols,            \* DataCollector.symbols
    workers,            \* the threads start() has made: where each is in _run
    caller,             \* where the thread that calls start() and stop() is
    stopped,            \* the threads that were DataCollector.thread when stop() was called
    accounts,           \* MultiAccountManager.accounts: account_id -> AccountInfo
    api_clients,        \* MultiAccountManager.api_clients: account_id -> cached client
    accounts_file,      \* what accounts.json holds
    clock,              \* datetime.now(), in whole seconds
    mcall,              \* the most recent MultiAccountManager call and what it returned
    bt,                 \* Backtester.run_backtest: its arguments, its locals and its result
    sig                 \* the most recent generate_signal call: strategy, inputs, result

tsVars == <<account_balance, trades, active_positions>>

riskVars == <<rm, today, last_update_day, rcall>>

engineVars == <<positions, iter, loop>>

\* The variables of the components that stand apart from the trade ledger.
collectorVars == <<is_running, thread, symbols, workers, caller, stopped>>

accountVars == <<accounts, api_clients, accounts_file, clock, mcall>>

apartVars == <<collectorVars, accountVars, bt, sig>>

restVars == <<report, apartVars>>

\* The TradeSetup object as one value.
TS == [account_balance |-> account_balance, trades |-> trades,
       active_positions |-> active_positions]

NoCall == [op |-> "init", err |-> "none"]

NoReport == [op |-> "init"]

NoReq == [position_type |-> "", entry_price |-> None, sl_price |-> None,
          target_price |-> None, quantity |-> None, risk_percent |-> None]

(***************************************************************************)
(* RiskManager (risk_manager.py); a date is a day number                    *)
(***************************************************************************)
\* Config.MAX_DAILY_LOSS, Config.MAX_POSITION_SIZE, Config.STOP_LOSS_PERCENT and
\* Config.TAKE_PROFIT_PERCENT as they are without an environment override.
MAX_DAILY_LOSS == RInt(100)
MAX_POSITION_SIZE == R(1, 100)
STOP_LOSS_PERCENT == RInt(2)
TAKE_PROFIT_PERCENT == RInt(3)

\* The balance below which should_place_trade refuses.
MinBalance == RInt(10)

\* The size below which calculate_position_size returns 0.
MinPositionSize == R(1, 1000)

\* RiskManager.__init__ on day 0.
RiskManager(max_daily_loss, max_position_size) ==
    [max_daily_loss      |-> max_daily_loss,
     max_position_size   |-> max_position_size,
     stop_loss_percent   |-> STOP_LOSS_PERCENT,
     take_profit_percent |-> TAKE_PROFIT_PERCENT,
     daily_pnl           |-> Zero,
     daily_reset_time    |-> 0,
     positions           |-> <<>>]

NoRiskCall == [op |-> "init", args |-> <<>>, ret |-> None]

\* RiskManager.reset_daily_stats, called on the date now.
reset_daily_stats(r, now) ==
    IF now > r.daily_reset_time
    THEN [r EXCEPT !.daily_pnl = Zero, !.daily_reset_time = now]
    ELSE r

\* calculate_position_size without the cap at max_position_size.
rm_calculate_position_size_uncapped(r, now, balance, entry_price, stop_loss_price, risk_percent) ==
    LET r1 == reset_daily_stats(r, now)
        risk_per_unit == RAbs(RSub(entry_price, stop_loss_price))
        risk_amount   == RMul(balance, RDiv(risk_percent, RInt(100)))
        position_size == RDiv(risk_amount, risk_per_unit)
    IN  IF RLe(entry_price, stop_loss_price) THEN [rm |-> r1, ret |-> Zero]
        ELSE IF RLt(position_size, MinPositionSize) THEN [rm |-> r1, ret |-> Zero]
        ELSE [rm |-> r1, ret |-> RRound(position_size, 8)]

\* RiskManager.calculate_position_size: the object after the call and the size returned.
rm_calculate_position_size(r, now, balance, entry_price, stop_loss_price, risk_percent) ==
    LET r1 == reset_daily_stats(r, now)
        risk_per_unit == RAbs(RSub(entry_price, stop_loss_price))
        risk_amount   == RMul(balance, RDiv(risk_percent, RInt(100)))
        position_size == RMin(RDiv(risk_amount, risk_per_unit), r1.max_position_size)
    IN  IF RLe(entry_price, stop_loss_price) THEN [rm |-> r1, ret |-> Zero]
        ELSE IF RLt(position_size, MinPositionSize) THEN [rm |-> r1, ret |-> Zero]
        ELSE [rm |-> r1, ret |-> RRound(position_size, 8)]

\* RiskManager.should_place_trade: the object after the call and the answer.
should_place_trade(r, now, balance) ==
    LET r1 == reset_daily_stats(r, now)
    IN  IF RLe(r1.daily_pnl, RNeg(r1.max_daily_loss)) THEN [rm |-> r1, ret |-> FALSE]
        ELSE IF RLt(balance, MinBalance) THEN [rm |-> r1, ret |-> FALSE]
        ELSE [rm |-> r1, ret |-> TRUE]

\* RiskManager.update_daily_pnl
update_daily_pnl(r, pnl) == [r EXCEPT !.daily_pnl = RAdd(@, pnl)]

\* RiskManager.calculate_stop_loss
calculate_stop_loss(r, entry_price, side) ==
    LET f == RDiv(r.stop_loss_percent, RInt(100))
    IN  IF side = "BUY" THEN RRound(RMul(entry_price, RSub(RInt(1), f)), 8)
        ELSE RRound(RMul(entry_price, RAdd(RInt(1), f)), 8)

\* RiskManager.calculate_take_profit
calculate_take_profit(r, entry_price, side) ==
    LET f == RDiv(r.take_profit_percent, RInt(100))
    IN  IF side = "BUY" THEN RRound(RMul(entry_price, RAdd(RInt(1), f)), 8)
        ELSE RRound(RMul(entry_price, RSub(RInt(1), f)), 8)

\* RiskManager.check_stop_loss
check_stop_loss(position, current_price) ==
    IF position.side = "BUY" THEN RLe(current_price, position.stop_loss)
    ELSE RLe(position.stop_loss, current_price)

\* RiskManager.check_take_profit
check_take_profit(position, current_price) ==
    IF position.side = "BUY" THEN RLe(position.take_profit, current_price)
    ELSE RLe(current_price, position.take_profit)

\* RiskManager.add_position: the position gets its stop and its target, and is kept.
add_position(r, position) ==
    [r EXCEPT !.positions =
        Append(@, [position EXCEPT
                     !.stop_loss = calculate_stop_loss(r, position.entry_price, position.side),
                     !.take_profit = calculate_take_profit(r, position.entry_price,
                                                           position.side)])]

\* RiskManager.remove_position
remove_position(r, position_id) ==
    [r EXCEPT !.positions = SelectSeq(@, LAMBDA p : p.id # position_id)]

NoIteration == [action |-> "", strong |-> FALSE, balance |-> None, allowed |-> FALSE,
                outcome |-> "init"]

\* TradingEngine.__init__: run has not been called, is_running is False.
NoLoop == [pc |-> "idle", is_running |-> FALSE, stop_called |-> FALSE]

(***************************************************************************)
(* src/trade_setup.py                                                      *)
(***************************************************************************)
\* TradeSetup.calculate_position_size
calculate_position_size(balance, entry_price, sl_price, risk_percent) ==
    IF RLe(entry_price, sl_price)
    THEN Zero
    ELSE LET risk_per_unit == RAbs(RSub(entry_price, sl_price))
             risk_amount   == RMul(balance, RDiv(risk_percent, RInt(100)))
             position_size == RDiv(risk_amount, risk_per_unit)
         IN  RRound(position_size, 8)

\* validate_prices with the stop of a LONG trade compared by > instead of >=.
validate_prices_strict(position_type, entry_price, sl_price, target_price) ==
    IF position_type = "LONG"
    THEN IF RLt(entry_price, sl_price) THEN "ValueError"
         ELSE IF RLe(target_price, entry_price) THEN "ValueError"
         ELSE "none"
    ELSE IF RLe(sl_price, entry_price) THEN "ValueError"
         ELSE IF RLe(entry_price, target_price) THEN "ValueError"
         ELSE "none"

\* The price validation of create_trade: the ValueError it raises, or "none".
validate_prices(position_type, entry_price, sl_price, target_price) ==
    IF position_type = "LONG"
    THEN IF RLe(entry_price, sl_price) THEN "ValueError"
         ELSE IF RLe(target_price, entry_price) THEN "ValueError"
         ELSE "none"
    ELSE IF RLe(sl_price, entry_price) THEN "ValueError"
         ELSE IF RLe(entry_price, target_price) THEN "ValueError"
         ELSE "none"

\* The trade dictionary create_trade builds (entry_price is not 0 here).
new_trade(ts, position_type, entry_price, sl_price, target_price, quantity_arg, risk_percent) ==
    LET quantity == IF quantity_arg = None
                    THEN calculate_position_size(ts.account_balance, entry_price,
                                                 sl_price, risk_percent)
                    ELSE quantity_arg
        risk_amount   == RMul(RAbs(RSub(entry_price, sl_price)), quantity)
        reward_amount == RMul(RAbs(RSub(target_price, entry_price)), quantity)
        risk_reward_ratio == IF RLt(Zero, risk_amount)
                             THEN RDiv(reward_amount, risk_amount) ELSE Zero
        sl_percent     == RMul(RAbs(RDiv(RSub(sl_price, entry_price), entry_price)), RInt(100))
        target_percent == RMul(RAbs(RDiv(RSub(target_price, entry_price), entry_price)), RInt(100))
    IN  [id                |-> Len(ts.trades),
         position_type     |-> position_type,
         entry_price       |-> RRound(entry_price, 8),
         sl_price          |-> RRound(sl_price, 8),
         target_price      |-> RRound(target_price, 8),
         quantity          |-> RRound(quantity, 8),
         risk_percent      |-> risk_percent,
         risk_amount       |-> RRound(risk_amount, 2),
         reward_amount     |-> RRound(reward_amount, 2),
         risk_reward_ratio |-> RRound(risk_reward_ratio, 2),
         sl_percent        |-> RRound(sl_percent, 2),
         target_percent    |-> RRound(target_percent, 2),
         status            |-> "PENDING",
         entry_time        |-> "None",
         exit_time         |-> "None",
         exit_price        |-> None,
         pnl               |-> Zero,
         pnl_percent       |-> Zero]

\* TradeSetup.create_trade: the object after the call and the exception raised.
create_trade(ts, position_type, entry_price, sl_price, target_price, quantity_arg, risk_percent) ==
    LET bad == validate_prices(position_type, entry_price, sl_price, target_price)
    IN  IF bad # "none" THEN [ts |-> ts, err |-> bad]
        ELSE IF entry_price = Zero THEN [ts |-> ts, err |-> "ZeroDivisionError"]
        ELSE [ts  |-> [ts EXCEPT !.trades = Append(@,
                          new_trade(ts, position_type, entry_price, sl_price,
                                    target_price, quantity_arg, risk_percent))],
              err |-> "none"]

\* TradeSetup.get_trade: the position in the ledger of the first trade with this id, 0 for None.
get_trade(ts, trade_id) ==
    LET hits == {i \in 1..Len(ts.trades) : ts.trades[i].id = trade_id}
    IN  IF hits = {} THEN 0 ELSE CHOOSE i \in hits : \A j \in hits : i <= j

\* Python's truth value of an optional float: None and 0.0 are false.
Truthy(x) == x # None /\ x # Zero

\* activate_trade once the trade (at position i of the ledger) is known to be PENDING.
do_activate(ts, i, trade_id, actual_entry_price) ==
    LET t0 == [ts.trades[i] EXCEPT !.status = "ACTIVE", !.entry_time = "set"]
        entry == RRound(actual_entry_price, 8)
        t1 == IF Truthy(actual_entry_price)
              THEN [t0 EXCEPT
                      !.entry_price = entry,
                      !.risk_amount = RRound(RMul(RAbs(RSub(entry, t0.sl_price)),
                                                  t0.quantity), 2),
                      !.reward_amount = RRound(RMul(RAbs(RSub(t0.target_price, entry)),
                                                    t0.quantity), 2)]
              ELSE t0
    IN  [ts  |-> [ts EXCEPT !.trades[i] = t1,
                            !.active_positions = Append(@, trade_id)],
         err |-> "none"]

\* activate_trade without its check of the status.
activate_trade_unchecked(ts, trade_id, actual_entry_price) ==
    LET i == get_trade(ts, trade_id)
    IN  IF i = 0 THEN [ts |-> ts, err |-> "ValueError"]
        ELSE do_activate(ts, i, trade_id, actual_entry_price)

\* TradeSetup.activate_trade
activate_trade(ts, trade_id, actual_entry_price) ==
    LET i == get_trade(ts, trade_id)
    IN  IF i = 0 THEN [ts |-> ts, err |-> "ValueError"]
        ELSE IF ts.trades[i].status # "PENDING" THEN [ts |-> ts, err |-> "ValueError"]
        ELSE do_activate(ts, i, trade_id, actual_entry_price)

\* TradeSetup._calculate_pnl: the trade after the call and the exception raised.
\* trade['pnl'] is assigned before the percentage is divided out.
calculate_pnl(trade, current_price_arg) ==
    LET current_price == IF current_price_arg = None THEN trade.exit_price
                         ELSE current_price_arg
        pnl == IF trade.position_type = "LONG"
               THEN RMul(RSub(current_price, trade.entry_price), trade.quantity)
               ELSE RMul(RSub(trade.entry_price, current_price), trade.quantity)
        cost == RMul(trade.entry_price, trade.quantity)
        t1  == [trade EXCEPT !.pnl = RRound(pnl, 2)]
    IN  IF cost = Zero
        THEN [trade |-> t1, err |-> "ZeroDivisionError"]
        ELSE [trade |-> [t1 EXCEPT !.pnl_percent =
                             RRound(RMul(RDiv(pnl, cost), RInt(100)), 2)],
              err   |-> "none"]

\* The list active_positions without the trade trade_id.
without(active, trade_id) == SelectSeq(active, LAMBDA x : x # trade_id)

\* TradeSetup.check_trade: the object after the call, the status it returns, the exception.
check_trade(ts, trade_id, current_price) ==
    LET i == get_trade(ts, trade_id)
    IN  IF i = 0 \/ (i # 0 /\ ts.trades[i].status # "ACTIVE")
        THEN [ts |-> ts, ret |-> "not_active", err |-> "none"]
        ELSE LET trade == ts.trades[i]
                 sl_hit == IF trade.position_type = "LONG"
                           THEN RLe(current_price, trade.sl_price)
                           ELSE RLe(trade.sl_price, current_price)
                 target_hit == IF trade.position_type = "LONG"
                               THEN RLe(trade.target_price, current_price)
                               ELSE RLe(current_price, trade.target_price)
                 hit(status) ==
                     LET c == calculate_pnl([trade EXCEPT !.status = status,
                                                          !.exit_time = "set",
                                                          !.exit_price = RRound(current_price, 8)],
                                            None)
                     IN  IF c.err # "none"
                         THEN [ts |-> [ts EXCEPT !.trades[i] = c.trade],
                               ret |-> "raised", err |-> c.err]
                         ELSE [ts |-> [ts EXCEPT !.trades[i] = c.trade,
                                                 !.active_positions = without(@, trade_id)],
                               ret |-> IF status = "SL_HIT" THEN "sl_hit" ELSE "target_hit",
                               err |-> "none"]
                 c == calculate_pnl(trade, current_price)
             IN  IF sl_hit THEN hit("SL_HIT")
                 ELSE IF target_hit THEN hit("TARGET_HIT")
                 ELSE [ts  |-> [ts EXCEPT !.trades[i] = c.trade],
                       ret |-> IF c.err = "none" THEN "active" ELSE "raised",
                       err |-> c.err]

\* close_trade once the trade (at position i of the ledger) is known to be open.
do_close(ts, i, trade_id, exit_price) ==
    LET c == calculate_pnl([ts.trades[i] EXCEPT !.status = "CLOSED",
                                                !.exit_time = "set",
                                                !.exit_price = RRound(exit_price, 8)],
                           None)
    IN  IF c.err # "none"
        THEN [ts |-> [ts EXCEPT !.trades[i] = c.trade], err |-> c.err]
        ELSE [ts  |-> [ts EXCEPT !.trades[i] = c.trade,
                                 !.active_positions = without(@, trade_id)],
              err |-> "none"]

\* close_trade without its check of the status.
close_trade_unchecked(ts, trade_id, exit_price) ==
    LET i == get_trade(ts, trade_id)
    IN  IF i = 0 THEN [ts |-> ts, err |-> "ValueError"]
        ELSE do_close(ts, i, trade_id, exit_price)

\* TradeSetup.close_trade
close_trade(ts, trade_id, exit_price) ==
    LET i == get_trade(ts, trade_id)
    IN  IF i = 0 THEN [ts |-> ts, err |-> "ValueError"]
        ELSE IF ts.trades[i].status \notin {"ACTIVE", "PENDING"}
        THEN [ts |-> ts, err |-> "ValueError"]
        ELSE do_close(ts, i, trade_id, exit_price)

\* TradeSetup.get_active_trades: the ids of the ACTIVE trades, in ledger order.
get_active_trades(ts) ==
    LET act == SelectSeq(ts.trades, LAMBDA t : t.status = "ACTIVE")
    IN  [k \in 1..Len(act) |-> act[k].id]


\* sum(t.get('pnl', 0) for t in self.trades), from position k on.
RECURSIVE total_pnl(_, _)
total_pnl(trs, k) ==
    IF k > Len(trs) THEN Zero ELSE RAdd(trs[k].pnl, total_pnl(trs, k + 1))

\* TradeSetup.get_long_positions and get_short_positions: the listed trades of one side.
side_positions(ts, position_type) ==
    SelectSeq(ts.active_positions,
              LAMBDA id : ts.trades[get_trade(ts, id)].position_type = position_type)

\* TradeSetup.get_trade_summary
get_trade_summary(ts) ==
    LET closed_trades  == Len(SelectSeq(ts.trades,
                              LAMBDA t : t.status \in {"SL_HIT", "TARGET_HIT", "CLOSED"}))
        winning_trades == Len(SelectSeq(ts.trades, LAMBDA t : RLt(Zero, t.pnl)))
        losing_trades  == Len(SelectSeq(ts.trades, LAMBDA t : RLt(t.pnl, Zero)))
    IN  [account_balance |-> ts.account_balance,
         total_trades    |-> Len(ts.trades),
         active_trades   |-> Len(get_active_trades(ts)),
         closed_trades   |-> closed_trades,
         long_positions  |-> Len(side_positions(ts, "LONG")),
         short_positions |-> Len(side_positions(ts, "SHORT")),
         total_pnl       |-> RRound(total_pnl(ts.trades, 1), 2),
         winning_trades  |-> winning_trades,
         losing_trades   |-> losing_trades,
         win_rate        |-> IF closed_trades > 0
                             THEN RRound(RMul(R(winning_trades, closed_trades), RInt(100)), 2)
                             ELSE Zero]

(***************************************************************************)
(* DataCollector (data_collector.py): the object and its background threads *)
(***************************************************************************)
\* The most threads start() is let make.
MaxThreads == 2

Threads == 1..MaxThreads

\* The symbols a collector is given and a service adds and removes.
Symbols == {"A", "B"}

\* A thread that start() has not made yet.
Unborn == [pc |-> "unborn", index |-> 0, attempted |-> <<>>, listed |-> {}]

\* DataCollector.__init__ with the symbols A and B.
CollectorInit ==
    /\ is_running = FALSE
    /\ thread = 0
    /\ symbols = <<"A", "B">>
    /\ workers = [t \in Threads |-> Unborn]
    /\ caller = "idle"
    /\ stopped = {}

(***************************************************************************)
(* MultiAccountManager (multi_account_manager.py)                           *)
(***************************************************************************)
\* The last second of the clock.
MaxClock == 1

\* The most trades an account is let count.
MaxTotalTrades == 1

\* The most accounts the registry is let hold.
MaxAccounts == 1

\* The broker names add_account is called with.
Brokers == {"delta", "Binance"}

\* str.lower() of a broker name
lower(broker) == IF broker = "Binance" THEN "binance" ELSE broker

ApiKeys == {"k1", "k2"}

ApiSecrets == {"s1"}

\* None, for an argument that is not given.
PyNone == "None"

AccountNames == {"main"}

\* f"{broker}_{account_name}_{now:%Y%m%d%H%M%S}"
account_id_of(broker, account_name, now) == <<broker, account_name, now>>

\* AccountInfo.__init__ (testnet, api_passphrase, created_at and total_pnl left out)
AccountInfo(account_id, account_name, broker, api_key, api_secret) ==
    [account_id |-> account_id, account_name |-> account_name, broker |-> lower(broker),
     api_key |-> api_key, api_secret |-> api_secret, is_active |-> TRUE,
     last_used |-> -1, total_trades |-> 0]

\* AccountInfo.to_dict: the dictionary without the credentials.
to_dict(account) ==
    [account_id |-> account.account_id, account_name |-> account.account_name,
     broker |-> account.broker, is_active |-> account.is_active,
     last_used |-> account.last_used, total_trades |-> account.total_trades]

\* AccountInfo.to_dict_full: the dictionary save_accounts writes.
to_dict_full(account) ==
    [account_id |-> account.account_id, account_name |-> account.account_name,
     broker |-> account.broker, api_key |-> account.api_key,
     api_secret |-> account.api_secret, is_active |-> account.is_active,
     last_used |-> account.last_used, total_trades |-> account.total_trades]

\* The body of the for loop of load_accounts: the AccountInfo made of one entry.
load_account(account_data) ==
    [AccountInfo(account_data.account_id, account_data.account_name, account_data.broker,
                 account_data.api_key, account_data.api_secret)
        EXCEPT !.is_active = account_data.is_active,
               !.last_used = account_data.last_used,
               !.total_trades = account_data.total_trades]

\* MultiAccountManager.load_accounts on the file content data: an entry without one
\* of the keys read with [] raises KeyError, and the registry is left empty.
load_accounts(data) ==
    IF \E a \in DOMAIN data :
           ~({"account_id", "account_name", "broker", "api_key", "api_secret"}
                 \subseteq DOMAIN data[a])
    THEN [a \in {} |-> 0]
    ELSE [a \in DOMAIN data |-> load_account(data[a])]

\* The client get_api_client builds for an account of broker delta or binance.
build_client(account) ==
    [class |-> IF account.broker = "delta" THEN "DeltaExchangeClient" ELSE "BinanceClient",
     api_key |-> account.api_key, api_secret |-> account.api_secret]

\* The manager as one value.
MAM == [accounts |-> accounts, api_clients |-> api_clients, accounts_file |-> accounts_file]

NoAccountCall == [op |-> "init"]

\* An empty dict.
EmptyDict == [a \in {} |-> 0]

\* MultiAccountManager.save_accounts: the file is rewritten in full.
save_accounts(m) ==
    [m EXCEPT !.accounts_file = [a \in DOMAIN m.accounts |-> to_dict_full(m.accounts[a])]]

\* del d[key] where the key is in the dictionary, and d unchanged where it is not.
dict_del(d, key) == [a \in DOMAIN d \ {key} |-> d[a]]

\* MultiAccountManager.add_account: the manager after the call and the id returned.
add_account(m, account_name, broker, api_key, api_secret, now) ==
    LET account_id == account_id_of(broker, account_name, now)
        account == AccountInfo(account_id, account_name, broker, api_key, api_secret)
        known == DOMAIN m.accounts \cup {account_id}
    IN  [m   |-> save_accounts([m EXCEPT !.accounts =
                     [a \in known |-> IF a = account_id THEN account ELSE m.accounts[a]]]),
         ret |-> account_id]

\* MultiAccountManager.update_account with is_active given, and api_key and
\* api_secret given or None
update_account(m, account_id, api_key, api_secret, is_active) ==
    IF account_id \notin DOMAIN m.accounts THEN [m |-> m, ret |-> FALSE]
    ELSE [m   |-> save_accounts(
                     [m EXCEPT !.accounts[account_id].api_key =
                                   IF api_key # PyNone THEN api_key ELSE @,
                               !.accounts[account_id].api_secret =
                                   IF api_secret # PyNone THEN api_secret ELSE @,
                               !.accounts[account_id].is_active = is_active,
                               !.api_clients = dict_del(@, account_id)]),
          ret |-> TRUE]

\* MultiAccountManager.delete_account
delete_account(m, account_id) ==
    IF account_id \notin DOMAIN m.accounts THEN [m |-> m, ret |-> FALSE]
    ELSE [m   |-> save_accounts([m EXCEPT
                     !.accounts = dict_del(@, account_id),
                     !.api_clients = dict_del(@, account_id)]),
          ret |-> TRUE]

\* d[key] = value, as a dict does it
put(results, account_id, result) ==
    [a \in DOMAIN results \cup {account_id} |->
        IF a = account_id THEN result ELSE results[a]]

\* MultiAccountManager.get_api_client for a registered account of a known broker
get_api_client(m, account_id, now) ==
    IF account_id \in DOMAIN m.api_clients THEN m
    ELSE save_accounts([m EXCEPT !.api_clients = put(@, account_id,
                                                     build_client(m.accounts[account_id])),
                                 !.accounts[account_id].last_used = now])

\* get_api_client as a caller sees it: the manager after the call, the exception
\* raised and the client returned.
get_api_client_call(m, account_id, now) ==
    IF account_id \notin DOMAIN m.accounts
    THEN [m |-> m, err |-> "ValueError", client |-> PyNone]
    ELSE LET m1 == get_api_client(m, account_id, now)
         IN  [m |-> m1, err |-> "none", client |-> m1.api_clients[account_id]]

\* One pass of the loop of execute_trade_on_accounts: the manager after it, the entry
\* it puts in results, and whether the client placed the order.  raises holds the
\* accounts whose client raises when asked to place the order.
execute_on_account(m, account_id, trade_data, raises, now) ==
    IF account_id \notin DOMAIN m.accounts
    THEN [m |-> m, placed |-> FALSE, raised |-> FALSE,
          result |-> [success |-> FALSE, error |-> "Account not found"]]
    ELSE IF ~m.accounts[account_id].is_active
    THEN [m |-> m, placed |-> FALSE, raised |-> FALSE,
          result |-> [success |-> FALSE, error |-> "Account is inactive"]]
    ELSE LET m1 == get_api_client(m, account_id, now)
         IN  IF account_id \in raises
             THEN [m |-> m1, placed |-> FALSE, raised |-> TRUE,
                   result |-> [success |-> FALSE, error |-> "raised"]]
             ELSE [m |-> [m1 EXCEPT !.accounts[account_id].total_trades = @ + 1,
                                    !.accounts[account_id].last_used = now],
                   placed |-> TRUE, raised |-> FALSE,
                   result |-> [success |-> TRUE, order |-> trade_data.order_type]]

\* The loop of execute_trade_on_accounts from position k on, were it to end at the
\* first client that raises.
RECURSIVE fan_out_abort(_, _, _, _, _, _, _, _)
fan_out_abort(m, account_ids, k, trade_data, raises, now, results, placed) ==
    IF k > Len(account_ids) THEN [m |-> m, results |-> results, placed |-> placed]
    ELSE LET r == execute_on_account(m, account_ids[k], trade_data, raises, now)
             res == put(results, account_ids[k], r.result)
         IN  IF r.raised THEN [m |-> r.m, results |-> res, placed |-> placed]
             ELSE fan_out_abort(r.m, account_ids, k + 1, trade_data, raises, now, res,
                                IF r.placed THEN Append(placed, account_ids[k]) ELSE placed)

\* The loop of execute_trade_on_accounts from position k on.
RECURSIVE fan_out(_, _, _, _, _, _, _, _)
fan_out(m, account_ids, k, trade_data, raises, now, results, placed) ==
    IF k > Len(account_ids) THEN [m |-> m, results |-> results, placed |-> placed]
    ELSE LET r == execute_on_account(m, account_ids[k], trade_data, raises, now)
         IN  fan_out(r.m, account_ids, k + 1, trade_data, raises, now,
                     put(results, account_ids[k], r.result),
                     IF r.placed THEN Append(placed, account_ids[k]) ELSE placed)

\* execute_trade_on_accounts with a loop that a raising client ends.
execute_trade_on_accounts_abort(m, account_ids, trade_data, raises, now) ==
    LET r == fan_out_abort(m, account_ids, 1, trade_data, raises, now, EmptyDict, <<>>)
    IN  [m |-> save_accounts(r.m), results |-> r.results, placed |-> r.placed]

\* MultiAccountManager.execute_trade_on_accounts: the manager after the call, the
\* dictionary returned, and the accounts on which the order was placed, in order.
execute_trade_on_accounts(m, account_ids, trade_data, raises, now) ==
    LET r == fan_out(m, account_ids, 1, trade_data, raises, now, EmptyDict, <<>>)
    IN  [m |-> save_accounts(r.m), results |-> r.results, placed |-> r.placed]

\* MultiAccountManager.__init__ where accounts.json does not exist.
AccountsInit ==
    /\ accounts = EmptyDict
    /\ api_clients = EmptyDict
    /\ accounts_file = EmptyDict
    /\ clock = 0
    /\ mcall = NoAccountCall

(***************************************************************************)
(* Backtester.run_backtest (backtesting.py)                                 *)
(***************************************************************************)
\* The most bars a frame holds after the warm-up.
MaxBars == 3

\* The warm-up of a strategy that asks for no more: min_period = 50.
min_period == 50

Closes == {RInt(1), RInt(2)}

\* The stop and the target a signal carries; 0 stands for none.
StopTargets == {<<Zero, Zero>>, <<RInt(1), RInt(2)>>, <<RInt(2), RInt(1)>>}

\* What generate_signal does: the signal it returns, or the exception it raises.
Signals ==
    {[action |-> a, stop_loss |-> Zero, take_profit |-> Zero] : a \in {"HOLD", "raise"}}
    \cup {[action |-> a, stop_loss |-> st[1], take_profit |-> st[2]] :
             a \in {"BUY", "SELL"}, st \in StopTargets}

\* n quiet rows, stamped 1..n.
Warmup(n) == [j \in 1..n |-> [timestamp |-> j, close |-> RInt(1)]]

\* k rows that follow the warm-up in time, oldest first or newest first.
TailBars(k) ==
    {[j \in 1..k |-> [timestamp |-> min_period + (IF oldest_first THEN j ELSE k + 1 - j),
                      close |-> closes[j]]] :
        closes \in [1..k -> Closes], oldest_first \in BOOLEAN}

\* The frames a caller passes: one too short, and the warm-up with up to MaxBars rows.
DataFrames ==
    {Warmup(min_period - 1)}
    \cup UNION {{Warmup(min_period) \o rows : rows \in TailBars(k)} : k \in 0..MaxBars}

\* Backtester.normalize_data: the copy of the frame, sorted by timestamp.
normalize_data(data) == SortSeq(data, LAMBDA a, b : a.timestamp < b.timestamp)

\* df.iloc[:i+1] without the copy: the rows through bar i, in the memory of df.
current_data_view(df, i) == [rows |-> SubSeq(df, 1, i + 1), shares |-> TRUE]

\* df.iloc[:i+1].copy(): the rows through bar i (bars count from 0), in memory of
\* their own.
current_data_of(df, i) == [rows |-> SubSeq(df, 1, i + 1), shares |-> FALSE]

\* The exit check of one open position: the reason it closes for, or "none".
exit_reason(position, current_price, strategy_exit) ==
    IF /\ RLt(Zero, position.stop_loss)
       /\ \/ position.side = "BUY" /\ RLe(current_price, position.stop_loss)
          \/ position.side = "SELL" /\ RLe(position.stop_loss, current_price)
    THEN "stop_loss"
    ELSE IF /\ RLt(Zero, position.take_profit)
            /\ \/ position.side = "BUY" /\ RLe(position.take_profit, current_price)
               \/ position.side = "SELL" /\ RLe(current_price, position.take_profit)
    THEN "take_profit"
    ELSE IF strategy_exit THEN "strategy_exit"
    ELSE "none"

\* The trade a position closes into, and the ZeroDivisionError of its pnl_percent.
bt_trade(position, exit_price, exit_time, reason, commission) ==
    LET gross == IF position.side = "BUY"
                 THEN RMul(RSub(exit_price, position.entry_price), position.quantity)
                 ELSE RMul(RSub(position.entry_price, exit_price), position.quantity)
        commission_cost == RMul(RMul(RAdd(position.entry_price, exit_price),
                                     position.quantity), commission)
        pnl == RSub(gross, commission_cost)
    IN  [trade |-> [entry_time |-> position.entry_time, exit_time |-> exit_time,
                    side |-> position.side, entry_price |-> position.entry_price,
                    exit_price |-> exit_price, quantity |-> position.quantity,
                    pnl |-> pnl, exit_reason |-> reason],
         err |-> IF RMul(position.entry_price, position.quantity) = Zero
                 THEN "ZeroDivisionError" ELSE "none"]

\* A loop that closes the positions of the list from position k down to 1: the locals
\* after it.  reasons[k] is the reason position k closes for, or "none".  A
\* ZeroDivisionError ends the run with the position already taken out of the list,
\* the capital updated and the trade not recorded.
RECURSIVE bt_close_from(_, _, _, _, _)
bt_close_from(b, k, reasons, exit_price, exit_time) ==
    IF k = 0 \/ b.pc = "raised" THEN b
    ELSE IF reasons[k] = "none" THEN bt_close_from(b, k - 1, reasons, exit_price, exit_time)
    ELSE LET c == bt_trade(b.positions[k], exit_price, exit_time, reasons[k], b.commission)
             rest == [j \in 1..(Len(b.positions) - 1) |->
                         IF j < k THEN b.positions[j] ELSE b.positions[j + 1]]
         IN  IF c.err # "none"
             THEN [b EXCEPT !.pc = "raised", !.positions = rest,
                            !.capital = RAdd(@, c.trade.pnl)]
             ELSE bt_close_from(
                      [b EXCEPT !.positions = rest,
                                !.capital = RAdd(@, c.trade.pnl),
                                !.trades = Append(@, c.trade),
                                !.winning_trades = IF RLt(Zero, c.trade.pnl) THEN @ + 1 ELSE @,
                                !.losing_trades = IF RLt(Zero, c.trade.pnl) THEN @ ELSE @ + 1],
                      k - 1, reasons, exit_price, exit_time)

\* Whether the loop opens a position on this signal, were it not to look at the list.
opens_position_always(signal, open_positions) == signal.action \in {"BUY", "SELL"}

\* Whether the loop opens a position on this signal.
opens_position(signal, open_positions) ==
    signal.action \in {"BUY", "SELL"} /\ Len(open_positions) = 0

\* sum of the unrealized P&L of the open positions, from position k on
RECURSIVE unrealized_pnl(_, _, _)
unrealized_pnl(open_positions, k, current_price) ==
    IF k > Len(open_positions) THEN Zero
    ELSE RAdd(IF open_positions[k].side = "BUY"
              THEN RMul(RSub(current_price, open_positions[k].entry_price),
                        open_positions[k].quantity)
              ELSE RMul(RSub(open_positions[k].entry_price, current_price),
                        open_positions[k].quantity),
              unrealized_pnl(open_positions, k + 1, current_price))

\* The locals of run_backtest once the frame is normalized and found long enough.
bt_start(data, initial_capital, commission, position_size_pct) ==
    LET df == normalize_data(data)
    IN  IF Len(df) < 50
        THEN [pc |-> "done", df |-> df, data |-> data, trades |-> <<>>, positions |-> <<>>,
              equity_curve |-> <<>>, winning_trades |-> 0, losing_trades |-> 0,
              total_trades |-> 0, signal |-> "", opened |-> <<>>, visited |-> <<>>,
              passed |-> <<>>]
        ELSE [pc |-> "loop", df |-> df, data |-> data, i |-> min_period,
              commission |-> commission, position_size_pct |-> position_size_pct,
              capital |-> initial_capital, equity_curve |-> <<initial_capital>>,
              positions |-> <<>>, trades |-> <<>>, winning_trades |-> 0,
              losing_trades |-> 0, total_trades |-> 0, signal |-> "",
              opened |-> <<>>, visited |-> <<>>, passed |-> <<>>]

\* What df holds once generate_signal has run on current_data and has (write) or has
\* not overwritten the closes of the frame it was given: a write reaches df only
\* through a frame that shares its memory.
df_after_signal(df, current_data, write) ==
    IF write /\ current_data.shares
    THEN [j \in 1..Len(df) |-> IF j <= Len(current_data.rows)
                               THEN [df[j] EXCEPT !.close = Zero] ELSE df[j]]
    ELSE df

\* One pass of the loop of run_backtest, for bar b.i: the exits, the signal, the entry
\* and the equity point.  signal is the action of the signal of the bar, opened lists
\* the entry times of the positions opened, visited the bars the loop has been at,
\* passed the frame generate_signal was given.
bt_bar(b, strategy_exit, signal, write) ==
    LET current_data  == current_data_of(b.df, b.i)
        current_price == current_data.rows[Len(current_data.rows)].close
        current_time  == current_data.rows[Len(current_data.rows)].timestamp
        reasons == [k \in 1..Len(b.positions) |->
                       exit_reason(b.positions[k], current_price, strategy_exit)]
        b1 == bt_close_from(b, Len(b.positions), reasons, current_price, current_time)
        b2 == [b1 EXCEPT !.visited = Append(@, b.i), !.passed = current_data.rows,
                         !.signal = signal.action]
        quantity == RDiv(RMul(b2.capital, b2.position_size_pct), current_price)
        b3 == IF opens_position(signal, b2.positions)
              THEN [b2 EXCEPT !.positions = Append(@,
                                   [entry_time |-> current_time, entry_price |-> current_price,
                                    quantity |-> quantity, side |-> signal.action,
                                    stop_loss |-> signal.stop_loss,
                                    take_profit |-> signal.take_profit]),
                              !.opened = Append(@, current_time)]
              ELSE b2
    IN  IF b1.pc = "raised" THEN b1
        ELSE [b3 EXCEPT !.equity_curve = Append(@, RAdd(b3.capital,
                                             unrealized_pnl(b3.positions, 1, current_price))),
                        !.df = df_after_signal(b.df, current_data, write),
                        !.i = b.i + 1]

\* The loop over the positions still open after the last bar, from position k on.
RECURSIVE bt_close_remaining(_, _, _, _)
bt_close_remaining(b, k, final_price, final_time) ==
    IF k > Len(b.positions) \/ b.pc = "raised" THEN b
    ELSE LET c == bt_trade(b.positions[k], final_price, final_time, "end_of_data",
                           b.commission)
         IN  IF c.err # "none"
             THEN [b EXCEPT !.pc = "raised", !.capital = RAdd(@, c.trade.pnl)]
             ELSE bt_close_remaining(
                      [b EXCEPT !.capital = RAdd(@, c.trade.pnl),
                                !.trades = Append(@, c.trade),
                                !.winning_trades = IF RLt(Zero, c.trade.pnl) THEN @ + 1 ELSE @,
                                !.losing_trades = IF RLt(Zero, c.trade.pnl) THEN @ ELSE @ + 1],
                      k + 1, final_price, final_time)

\* The end of run_backtest were the positions still open left out of the ledger.
bt_finish_open(b) == [b EXCEPT !.pc = "done", !.total_trades = Len(b.trades)]

\* The end of run_backtest: the positions still open are closed at the last close of
\* the frame (the list positions is left as it is), and the result is filled in.
bt_finish(b) ==
    LET last == b.df[Len(b.df)]
        b1 == IF Len(b.positions) > 0 /\ Len(b.df) > 0
              THEN bt_close_remaining(b, 1, last.close, last.timestamp)
              ELSE b
    IN  IF b1.pc = "raised" THEN b1
        ELSE [b1 EXCEPT !.pc = "done", !.total_trades = Len(b1.trades)]

\* Backtester.__init__: no run yet.
BacktestInit == bt = [pc |-> "idle"]

(***************************************************************************)
(* generate_signal of the strategies (strategy.py, advanced_strategies.py,  *)
(* chart_patterns.py); the indicators are inputs                            *)
(***************************************************************************)
Signal(action, confidence, price) ==
    [err |-> "none", action |-> action, confidence |-> confidence, price |-> price]

\* generate_signal raised.
Raised(err) == [err |-> err, action |-> "", confidence |-> None, price |-> None]

\* MovingAverageStrategy.generate_signal; enough is len(data) >= slow_period.
ma_generate_signal(enough, prev_ma_fast, prev_ma_slow, ma_fast, ma_slow, current_price) ==
    LET confidence == RMin(RMul(RDiv(RAbs(RSub(ma_fast, ma_slow)), current_price),
                                RInt(100)), RInt(1))
    IN  IF ~enough THEN Signal("HOLD", Zero, Zero)
        ELSE IF RLe(prev_ma_fast, prev_ma_slow) /\ RLt(ma_slow, ma_fast)
        THEN Signal("BUY", confidence, current_price)
        ELSE IF RLe(prev_ma_slow, prev_ma_fast) /\ RLt(ma_fast, ma_slow)
        THEN Signal("SELL", confidence, current_price)
        ELSE Signal("HOLD", Zero, current_price)

\* RSIMomentumStrategy.generate_signal with oversold 30 and overbought 70
rsi_generate_signal(enough, prev_rsi, current_rsi, current_price) ==
    IF ~enough THEN Signal("HOLD", Zero, Zero)
    ELSE IF RLe(prev_rsi, RInt(30)) /\ RLt(RInt(30), current_rsi)
    THEN Signal("BUY", RMin(RDiv(RSub(current_rsi, RInt(30)), RInt(40)), RInt(1)),
                current_price)
    ELSE IF RLe(RInt(70), prev_rsi) /\ RLt(current_rsi, RInt(70))
    THEN Signal("SELL", RMin(RDiv(RSub(RInt(70), current_rsi), RInt(40)), RInt(1)),
                current_price)
    ELSE Signal("HOLD", Zero, current_price)

\* BollingerBandsStrategy.generate_signal
bb_generate_signal(enough, lower_band, upper_band, current_price) ==
    IF ~enough THEN Signal("HOLD", Zero, Zero)
    ELSE IF RLe(current_price, lower_band)
    THEN Signal("BUY", RMin(RMul(RDiv(RSub(lower_band, current_price), current_price),
                                 RInt(100)), RInt(1)), current_price)
    ELSE IF RLe(upper_band, current_price)
    THEN Signal("SELL", RMin(RMul(RDiv(RSub(current_price, upper_band), current_price),
                                  RInt(100)), RInt(1)), current_price)
    ELSE Signal("HOLD", Zero, current_price)

\* MLBasedStrategy.generate_signal.  x_empty: no feature column is left; raises: the
\* model raises in predict; prediction and prob: what predict and predict_proba[0]
\* return (prob[k + 1] here is prob[k] there).
ml_generate_signal(is_trained, x_empty, raises, prediction, prob, current_price) ==
    IF ~is_trained THEN Signal("HOLD", Zero, Zero)
    ELSE IF x_empty THEN Signal("HOLD", Zero, current_price)
    ELSE IF raises \/ Len(prediction) = 0 THEN Signal("HOLD", Zero, current_price)
    ELSE IF prediction[1] = 1
    THEN Signal("BUY", IF Len(prob) > 2 THEN prob[3] ELSE R(1, 2), current_price)
    ELSE IF prediction[1] = -1
    THEN Signal("SELL", IF Len(prob) > 0 THEN prob[1] ELSE R(1, 2), current_price)
    ELSE Signal("HOLD", IF Len(prob) > 1 THEN prob[2] ELSE Zero, current_price)

\* The attributes of a ChartPatternStrategy after __init__: those of Strategy and
\* detector and pattern_types.  min_pattern_strength is set on the detector only.
strategy_attributes == {"name", "positions", "signals", "detector", "pattern_types"}

\* ChartPatternDetector.min_pattern_strength
min_pattern_strength == R(1, 2)

\* The filter loop of ChartPatternStrategy.generate_signal from pattern k on: the
\* patterns kept, or the exception raised.
RECURSIVE valid_patterns(_, _, _)
valid_patterns(patterns, k, kept) ==
    IF k > Len(patterns) THEN [err |-> "none", kept |-> kept]
    ELSE IF ~patterns[k].breakout \/ patterns[k].is_fake
    THEN valid_patterns(patterns, k + 1, kept)
    ELSE IF "min_pattern_strength" \notin strategy_attributes
    THEN [err |-> "AttributeError", kept |-> kept]
    ELSE IF RLt(patterns[k].strength, min_pattern_strength)
    THEN valid_patterns(patterns, k + 1, kept)
    ELSE valid_patterns(patterns, k + 1, Append(kept, patterns[k]))

\* The key valid_patterns is sorted by, largest first.
rank(pattern) == RDiv(RAdd(pattern.strength, pattern.confidence), RInt(2))

\* valid_patterns[0] after the stable sort: the first pattern of the largest key.
best_pattern(kept) ==
    kept[CHOOSE i \in 1..Len(kept) :
            /\ \A j \in 1..Len(kept) : RLe(rank(kept[j]), rank(kept[i]))
            /\ \A j \in 1..(i - 1) : RLt(rank(kept[j]), rank(kept[i]))]

\* ChartPatternStrategy.generate_signal over what detect_all_patterns returned.
chart_generate_signal(bars, patterns, current_price) ==
    IF bars < 50 THEN Signal("HOLD", Zero, Zero)
    ELSE IF patterns = <<>> THEN Signal("HOLD", Zero, current_price)
    ELSE LET v == valid_patterns(patterns, 1, <<>>)
         IN  IF v.err # "none" THEN Raised(v.err)
             ELSE IF v.kept = <<>> THEN Signal("HOLD", Zero, current_price)
             ELSE IF best_pattern(v.kept).type = "Bullish"
             THEN Signal("BUY", best_pattern(v.kept).strength, current_price)
             ELSE Signal("SELL", best_pattern(v.kept).strength, current_price)

NoSignal == [strategy |-> "init"]

SignalInit == sig = NoSignal

ApartInit == CollectorInit /\ AccountsInit /\ BacktestInit /\ SignalInit

(***************************************************************************)
(* The ledger driven through the TradeSetup interface                      *)
(***************************************************************************)
vars == <<account_balance, trades, active_positions, orders, call, req,
          rm, today, last_update_day, rcall, positions, iter, loop, report,
          is_running, thread, symbols, workers, caller, stopped,
          accounts, api_clients, accounts_file, clock, mcall, bt, sig>>

\* Ids a caller may pass: those the ledger can hold and one it never holds.
TradeIds == 0..MaxTrades

\* TradeSetup.__init__, and nothing called yet.
Init ==
    /\ account_balance = Zero
    /\ trades = <<>>
    /\ active_positions = <<>>
    /\ orders = <<>>
    /\ call = NoCall
    /\ req = NoReq
    /\ rm = RiskManager(MAX_DAILY_LOSS, MAX_POSITION_SIZE)
    /\ today = 0
    /\ last_update_day = -1
    /\ rcall = NoRiskCall
    /\ positions = <<>>
    /\ iter = NoIteration
    /\ loop = NoLoop
    /\ report = NoReport
    /\ ApartInit

SetTS(ts) ==
    /\ account_balance' = ts.account_balance
    /\ trades' = ts.trades
    /\ active_positions' = ts.active_positions

\* TradeSetup.set_account_balance
SetAccountBalance(balance) ==
    /\ account_balance' = balance
    /\ call' = [op |-> "set_account_balance", err |-> "none"]
    /\ UNCHANGED <<trades, active_positions, orders, req, riskVars, engineVars, restVars>>

CreateTradeStep(max, position_type, entry_price, sl_price, target_price, quantity, risk_percent) ==
    /\ Len(trades) < max
    /\ LET r == create_trade(TS, position_type, entry_price, sl_price, target_price,
                             quantity, risk_percent)
       IN  /\ SetTS(r.ts)
           /\ call' = [op |-> "create_trade", err |-> r.err]
    /\ UNCHANGED <<orders, riskVars, engineVars, restVars>>

CreateTrade(position_type, entry_price, sl_price, target_price, quantity, risk_percent) ==
    /\ CreateTradeStep(MaxTrades, position_type, entry_price, sl_price, target_price,
                       quantity, risk_percent)
    /\ UNCHANGED req

ActivateTrade(trade_id, actual_entry_price) ==
    /\ LET r == activate_trade(TS, trade_id, actual_entry_price)
       IN  /\ SetTS(r.ts)
           /\ call' = [op |-> "activate_trade", err |-> r.err]
    /\ UNCHANGED <<orders, req, riskVars, engineVars, restVars>>

CheckTrade(trade_id, current_price) ==
    /\ LET r == check_trade(TS, trade_id, current_price)
       IN  /\ SetTS(r.ts)
           /\ call' = [op |-> "check_trade", err |-> r.err]
    /\ UNCHANGED <<orders, req, riskVars, engineVars, restVars>>

CloseTrade(trade_id, exit_price) ==
    /\ LET r == close_trade(TS, trade_id, exit_price)
       IN  /\ SetTS(r.ts)
           /\ call' = [op |-> "close_trade", err |-> r.err]
    /\ UNCHANGED <<orders, req, riskVars, engineVars, restVars>>

Next ==
    \/ \E b \in Balances : SetAccountBalance(b)
    \/ \E pt \in PositionTypes, e \in Prices, s \in Prices, t \in Prices,
          q \in Quantities, rp \in RiskPercents : CreateTrade(pt, e, s, t, q, rp)
    \/ \E id \in TradeIds, a \in Prices \cup {None} : ActivateTrade(id, a)
    \/ \E id \in TradeIds, p \in Prices : CheckTrade(id, p)
    \/ \E id \in TradeIds, p \in Prices : CloseTrade(id, p)

Spec == Init /\ [][Next]_vars

(***************************************************************************)
(* The ledger with room for one more trade, and its summary                *)
(***************************************************************************)
GetTradeSummary ==
    /\ report' = [op |-> "get_trade_summary", summary |-> get_trade_summary(TS)]
    /\ call' = [op |-> "get_trade_summary", err |-> "none"]
    /\ UNCHANGED <<tsVars, orders, req, riskVars, engineVars, apartVars>>

\* Prices the market is seen at: those of the orders and one between entry and target.
MarkPrices == Prices \cup {RInt(99)}

\* A trade of two units, entered by hand.
CreateSizedTrade(position_type, entry_price, sl_price, target_price) ==
    /\ CreateTradeStep(MaxTrades + 1, position_type, entry_price, sl_price, target_price,
                       RInt(2), RInt(1))
    /\ UNCHANGED req

NextSummary ==
    \/ \E pt \in PositionTypes, e \in Prices, sl \in Prices, t \in Prices :
            CreateSizedTrade(pt, e, sl, t)
    \/ \E id \in TradeIds : ActivateTrade(id, None)
    \/ \E id \in TradeIds, p \in MarkPrices : CheckTrade(id, p)
    \/ \E id \in TradeIds, p \in Prices : CloseTrade(id, p)
    \/ GetTradeSummary

SpecSummary == Init /\ [][NextSummary]_vars

(***************************************************************************)
(* create_trade alone, with the arguments of each call on record           *)
(***************************************************************************)
CreateTradeCall(position_type, entry_price, sl_price, target_price, quantity, risk_percent) ==
    /\ CreateTradeStep(MaxTrades, position_type, entry_price, sl_price, target_price,
                       quantity, risk_percent)
    /\ req' = [position_type |-> position_type, entry_price |-> entry_price,
               sl_price |-> sl_price, target_price |-> target_price,
               quantity |-> quantity, risk_percent |-> risk_percent]

NextCreate ==
    \/ \E b \in Balances : SetAccountBalance(b)
    \/ \E pt \in PositionTypes, e \in Prices, s \in Prices, t \in Prices,
          q \in Quantities, rp \in RiskPercents : CreateTradeCall(pt, e, s, t, q, rp)

SpecCreate == Init /\ [][NextCreate]_vars

(***************************************************************************)
(* TradeManager (trade_manager.py) over the same ledger and a broker        *)
(***************************************************************************)
\* The most entry orders execute_trade is let place.
MaxOrders == 2

\* The balance initialize_account falls back to when the broker call raises.
DefaultBalance == RInt(10000)

\* What the broker answers to a price request: a price, or None for a request that raised.
Quotes == Prices \cup {None}

\* What api_client.get_account_balance comes to.  raised: the call raised; is_dict:
\* the payload is a dictionary; has_result, has_balances, error: it has the key; None
\* stands for a key that is absent.  This one is the empty dictionary.
EmptyPayload ==
    [raised |-> FALSE, is_dict |-> TRUE, error |-> FALSE,
     has_result |-> FALSE, result_balances |-> <<>>, result_available_balance |-> None,
     has_balances |-> FALSE, balances |-> <<>>, available_balance |-> None]

\* DeltaExchangeClient.get_account_balance when both endpoints failed.
DeltaFailure == [EmptyPayload EXCEPT !.has_result = TRUE, !.error = TRUE]

\* The answers of the brokers: a call that raised, a payload that is no dictionary,
\* a dictionary of no known shape, the failure payload of the Delta client, and the
\* Delta, Binance and flat shapes holding a balance.
BalanceResponses ==
    {[EmptyPayload EXCEPT !.raised = TRUE], [EmptyPayload EXCEPT !.is_dict = FALSE],
     EmptyPayload, DeltaFailure,
     [EmptyPayload EXCEPT !.has_result = TRUE, !.result_balances = <<R(1, 2), R(1, 2)>>],
     [EmptyPayload EXCEPT !.has_balances = TRUE,
                          !.balances = <<[asset |-> "BTC", free |-> RInt(1)]>>]}
    \cup {[EmptyPayload EXCEPT !.has_result = TRUE, !.result_balances = <<b>>] : b \in Balances}
    \cup {[EmptyPayload EXCEPT !.has_result = TRUE, !.result_available_balance = b] : b \in Balances}
    \cup {[EmptyPayload EXCEPT !.has_balances = TRUE,
                               !.balances = <<[asset |-> "BTC", free |-> RInt(1)],
                                              [asset |-> "USDT", free |-> b]>>] : b \in Balances}
    \cup {[EmptyPayload EXCEPT !.available_balance = b] : b \in Balances}

MarketOrder(side, quantity) ==
    [type |-> "MARKET", side |-> side, quantity |-> quantity, price |-> None]

LimitOrder(side, quantity, price) ==
    [type |-> "LIMIT", side |-> side, quantity |-> quantity, price |-> price]

\* dict.get(key, 0) of a number.
get_or_zero(value) == IF value = None THEN Zero ELSE value

\* sum(float(b.get('balance', 0)) for b in balances) from entry k on.
RECURSIVE sum_balances(_, _)
sum_balances(balances, k) ==
    IF k > Len(balances) THEN Zero
    ELSE RAdd(get_or_zero(balances[k]), sum_balances(balances, k + 1))

\* The for ... else of the Binance branch: free of the first USDT asset, else 0.
RECURSIVE usdt_free(_, _)
usdt_free(balances, k) ==
    IF k > Len(balances) THEN Zero
    ELSE IF balances[k].asset = "USDT" THEN get_or_zero(balances[k].free)
    ELSE usdt_free(balances, k + 1)

\* The try block of initialize_account: total_balance as extracted from balance_data.
total_balance(balance_data) ==
    IF ~balance_data.is_dict THEN Zero
    ELSE IF balance_data.has_result
         THEN IF balance_data.result_balances # <<>>
              THEN sum_balances(balance_data.result_balances, 1)
              ELSE get_or_zero(balance_data.result_available_balance)
    ELSE IF balance_data.has_balances THEN usdt_free(balance_data.balances, 1)
    ELSE get_or_zero(balance_data.available_balance)

\* TradeManager.initialize_account: the balance handed to set_account_balance.
initialize_account(response) ==
    IF response.raised THEN DefaultBalance ELSE total_balance(response)

\* TradeManager.create_manual_trade: every position_type but LONG is taken as SHORT.
create_manual_trade(ts, position_type, entry_price, sl_price, target_price, quantity_arg, risk_percent) ==
    create_trade(ts, IF position_type = "LONG" THEN "LONG" ELSE "SHORT",
                 entry_price, sl_price, target_price, quantity_arg, risk_percent)

\* TradeManager.execute_trade: the entry order goes out before activate_trade looks
\* at the status; accepted is whether the broker took the order.
execute_trade(ts, os, trade_id, accepted) ==
    LET i == get_trade(ts, trade_id)
    IN  IF i = 0 THEN [ts |-> ts, orders |-> os, err |-> "ValueError"]
        ELSE IF ~accepted THEN [ts |-> ts, orders |-> os, err |-> "BrokerError"]
        ELSE LET trade == ts.trades[i]
                 side  == IF trade.position_type = "LONG" THEN "BUY" ELSE "SELL"
                 r     == activate_trade(ts, trade_id, trade.entry_price)
             IN  [ts     |-> r.ts,
                  orders |-> Append(os, LimitOrder(side, trade.quantity, trade.entry_price)),
                  err    |-> r.err]

\* TradeManager._exit_trade: the opposite-side market order; a refusal is only logged.
exit_trade(os, trade, accepted) ==
    IF accepted
    THEN Append(os, MarketOrder(IF trade.position_type = "LONG" THEN "SELL" ELSE "BUY",
                                trade.quantity))
    ELSE os

\* The body of the for loop of monitor_trades for the trade at ledger position i.
monitor_one(st, i, quote, accepted) ==
    IF quote = None THEN st
    ELSE LET r == check_trade(st.ts, st.ts.trades[i].id, quote)
         IN  IF r.err # "none" THEN [st EXCEPT !.ts = r.ts]
             ELSE IF r.ret \in {"sl_hit", "target_hit"}
             THEN [ts |-> r.ts, orders |-> exit_trade(st.orders, r.ts.trades[i], accepted)]
             ELSE [st EXCEPT !.ts = r.ts]

\* One pass of monitor_trades over the trades that were ACTIVE when it began
\* (ledger positions ids[k..]).
RECURSIVE monitor_trades(_, _, _, _, _)
monitor_trades(st, ids, k, quotes, accepts) ==
    IF k > Len(ids) THEN st
    ELSE monitor_trades(monitor_one(st, ids[k], quotes[ids[k]], accepts[ids[k]]),
                        ids, k + 1, quotes, accepts)

\* The price refresh of get_dashboard for the trade at ledger position i.
dashboard_one(ts, i, quote) ==
    IF quote = None THEN ts ELSE check_trade(ts, ts.trades[i].id, quote).ts

\* The price refresh of get_dashboard over the trades that were ACTIVE when it began.
RECURSIVE get_dashboard(_, _, _, _)
get_dashboard(ts, ids, k, quotes) ==
    IF k > Len(ids) THEN ts
    ELSE get_dashboard(dashboard_one(ts, ids[k], quotes[ids[k]]), ids, k + 1, quotes)

\* Ledger positions of the ACTIVE trades, in ledger order.
RECURSIVE active_indices(_, _)
active_indices(ts, k) ==
    IF k > Len(ts.trades) THEN <<>>
    ELSE IF ts.trades[k].status = "ACTIVE"
         THEN <<k>> \o active_indices(ts, k + 1)
         ELSE active_indices(ts, k + 1)

InitializeAccount(response) ==
    /\ account_balance' = initialize_account(response)
    /\ call' = [op |-> "initialize_account", err |-> "none", balance_data |-> response]
    /\ UNCHANGED <<trades, active_positions, orders, req, riskVars, engineVars, restVars>>

CreateManualTrade(position_type, entry_price, sl_price, target_price, quantity_arg, risk_percent) ==
    /\ Len(trades) < MaxTrades
    /\ LET r == create_manual_trade(TS, position_type, entry_price, sl_price,
                                    target_price, quantity_arg, risk_percent)
       IN  /\ SetTS(r.ts)
           /\ call' = [op |-> "create_trade", err |-> r.err]
    /\ UNCHANGED <<orders, req, riskVars, engineVars, restVars>>

ExecuteTrade(trade_id, accepted) ==
    /\ Len(orders) < MaxOrders
    /\ LET r == execute_trade(TS, orders, trade_id, accepted)
       IN  /\ SetTS(r.ts)
           /\ orders' = r.orders
           /\ call' = [op |-> "execute_trade", err |-> r.err]
    /\ UNCHANGED <<req, riskVars, engineVars, restVars>>

MonitorTick(quotes, accepts) ==
    /\ \E st \in {monitor_trades([ts |-> TS, orders |-> orders],
                                   active_indices(TS, 1), 1, quotes, accepts)} :
           /\ SetTS(st.ts)
           /\ orders' = st.orders
    /\ call' = [op |-> "monitor_trades", err |-> "none"]
    /\ UNCHANGED <<req, riskVars, engineVars, restVars>>

\* What get_dashboard returns: the summary and the list of ACTIVE trades are taken
\* before the refresh (before), the list holding the trade objects themselves, which
\* the refresh updates in place; the long and short lists are taken after it (after).
dashboard_result(before, after) ==
    LET ids == active_indices(before, 1)
    IN  [op              |-> "get_dashboard",
         summary         |-> get_trade_summary(before),
         active_trades   |-> [k \in 1..Len(ids) |-> after.trades[ids[k]]],
         long_positions  |-> side_positions(after, "LONG"),
         short_positions |-> side_positions(after, "SHORT")]

GetDashboard(quotes) ==
    /\ \E ts \in {get_dashboard(TS, active_indices(TS, 1), 1, quotes)} :
           /\ SetTS(ts)
           /\ report' = dashboard_result(TS, ts)
    /\ call' = [op |-> "get_dashboard", err |-> "none"]
    /\ UNCHANGED <<orders, req, riskVars, engineVars, apartVars>>

\* The Close Trade tab of the dashboard: one of the ACTIVE trades, at an exit price.
UICloseTrade(i, exit_price) ==
    /\ i \in 1..Len(trades)
    /\ trades[i].status = "ACTIVE"
    /\ LET r == close_trade(TS, trades[i].id, exit_price)
       IN  /\ SetTS(r.ts)
           /\ call' = [op |-> "close_trade", err |-> r.err]
    /\ UNCHANGED <<orders, req, riskVars, engineVars, restVars>>

NextManager ==
    \/ \E response \in BalanceResponses : InitializeAccount(response)
    \/ \E pt \in PositionTypes, e \in Prices, sl \in Prices, t \in Prices,
          q \in Quantities, rp \in RiskPercents :
            CreateManualTrade(pt, e, sl, t, q, rp)
    \/ \E id \in TradeIds, accepted \in BOOLEAN : ExecuteTrade(id, accepted)
    \/ \E quotes \in [1..MaxTrades -> Quotes], accepts \in [1..MaxTrades -> BOOLEAN] :
            MonitorTick(quotes, accepts)
    \/ \E quotes \in [1..MaxTrades -> Quotes] : GetDashboard(quotes)
    \/ \E i \in 1..MaxTrades, p \in Prices : UICloseTrade(i, p)

SpecManager == Init /\ [][NextManager]_vars

(***************************************************************************)
(* RiskManager on its own: the calls a TradingEngine makes, in any order    *)
(***************************************************************************)
\* The last day the clock is let reach.
MaxDay == 2

\* The largest |daily_pnl| update_daily_pnl is let build up.
MaxPnl == 300

\* Configurations of the RiskManager: Config.MAX_POSITION_SIZE as shipped, and raised.
PositionSizeCaps == {MAX_POSITION_SIZE, RInt(1000)}

\* Balances should_place_trade is asked about: below and above its threshold.
RiskBalances == {RInt(5), RInt(100)}

\* Realised results handed to update_daily_pnl.
PnlDeltas == {RInt(-150), RInt(-60), RInt(60)}

\* Arguments of calculate_position_size: <<balance, entry, stop, risk_percent>>.
SizeRequests ==
    {<<RInt(100000), RInt(100), RInt(98), RInt(1)>>,
     <<RInt(100), RInt(100), RInt(97), RInt(1)>>,
     <<RInt(100), RInt(100), RInt(98), RInt(1)>>,
     <<RInt(5), RInt(100), RInt(0), RInt(1)>>,
     <<RInt(5), RInt(100), RInt(50), RInt(1)>>,
     <<RInt(100), RInt(98), RInt(100), RInt(1)>>,
     <<RInt(100), RInt(100), RInt(100), RInt(1)>>}

ledgerVars == <<account_balance, trades, active_positions, orders, call, req>>

InitRisk ==
    /\ account_balance = Zero
    /\ trades = <<>>
    /\ active_positions = <<>>
    /\ orders = <<>>
    /\ call = NoCall
    /\ req = NoReq
    /\ rm \in {RiskManager(MAX_DAILY_LOSS, cap) : cap \in PositionSizeCaps}
    /\ today = 0
    /\ last_update_day = -1
    /\ rcall = NoRiskCall
    /\ positions = <<>>
    /\ iter = NoIteration
    /\ loop = NoLoop
    /\ report = NoReport
    /\ ApartInit

ShouldPlaceTrade(balance) ==
    /\ \E r \in {should_place_trade(rm, today, balance)} :
           /\ rm' = r.rm
           /\ rcall' = [op |-> "should_place_trade", args |-> <<balance>>, ret |-> r.ret]
    /\ UNCHANGED <<today, last_update_day, ledgerVars, engineVars, restVars>>

UpdateDailyPnl(pnl) ==
    /\ RLe(RAbs(RAdd(rm.daily_pnl, pnl)), RInt(MaxPnl))
    /\ rm' = update_daily_pnl(rm, pnl)
    /\ last_update_day' = today
    /\ rcall' = [op |-> "update_daily_pnl", args |-> <<pnl>>, ret |-> None]
    /\ UNCHANGED <<today, ledgerVars, engineVars, restVars>>

CalculatePositionSize(request) ==
    /\ \E r \in {rm_calculate_position_size(rm, today, request[1], request[2],
                                            request[3], request[4])} :
           /\ rm' = r.rm
           /\ rcall' = [op |-> "calculate_position_size", args |-> request, ret |-> r.ret]
    /\ UNCHANGED <<today, last_update_day, ledgerVars, engineVars, restVars>>

\* Midnight passes.
AdvanceDay ==
    /\ today < MaxDay
    /\ today' = today + 1
    /\ UNCHANGED <<rm, last_update_day, rcall, ledgerVars, engineVars, restVars>>

NextRisk ==
    \/ \E balance \in RiskBalances : ShouldPlaceTrade(balance)
    \/ \E pnl \in PnlDeltas : UpdateDailyPnl(pnl)
    \/ \E request \in SizeRequests : CalculatePositionSize(request)
    \/ AdvanceDay

SpecRisk == InitRisk /\ [][NextRisk]_vars

(***************************************************************************)
(* TradingEngine (trading_engine.py): one pass of the loop of run           *)
(***************************************************************************)
\* Balances get_account_balance comes to; 0 also stands for a request that raised.
EngineBalances == {Zero, RInt(5), RInt(50), RInt(100), RInt(10000)}

Actions == {"BUY", "SELL", "HOLD"}

\* The engine with its RiskManager and its broker, as one value.
Engine == [positions |-> positions, rm |-> rm, orders |-> orders,
           last_update_day |-> last_update_day]

\* MovingAverageStrategy.should_exit
should_exit(position, current_price) ==
    IF position.entry_price = Zero THEN FALSE
    ELSE IF position.side = "BUY"
         THEN RLt(current_price, RMul(position.entry_price, R(98, 100)))
         ELSE RLt(RMul(position.entry_price, R(102, 100)), current_price)

\* TradingEngine.close_position; accepted is whether the broker took the order and
\* exit_quote what it then answered to the price request.
close_position(eng, now, position_id, accepted, exit_quote) ==
    LET held == SelectSeq(eng.positions, LAMBDA p : p.id = position_id)
    IN  IF held = <<>> THEN eng
        ELSE IF ~accepted THEN eng
        ELSE LET position == held[1]
                 side == IF position.side = "BUY" THEN "SELL" ELSE "BUY"
                 sent == [eng EXCEPT !.orders = Append(@, MarketOrder(side, position.quantity))]
                 pnl  == IF position.side = "BUY"
                         THEN RMul(RSub(exit_quote, position.entry_price), position.quantity)
                         ELSE RMul(RSub(position.entry_price, exit_quote), position.quantity)
             IN  IF exit_quote = None THEN sent
                 ELSE [sent EXCEPT
                         !.rm = remove_position(update_daily_pnl(@, pnl), position_id),
                         !.last_update_day = now,
                         !.positions = SelectSeq(@, LAMBDA p : p.id # position_id)]

\* The body of the for loop of check_positions for one position of the snapshot.
check_position(eng, now, position, current_price, accepted, exit_quote) ==
    IF \/ check_stop_loss(position, current_price)
       \/ check_take_profit(position, current_price)
       \/ should_exit(position, current_price)
    THEN close_position(eng, now, position.id, accepted, exit_quote)
    ELSE eng

\* TradingEngine.check_positions once the current price is known, over the snapshot.
RECURSIVE check_positions(_, _, _, _, _, _, _)
check_positions(eng, now, snapshot, k, current_price, accepted, exit_quote) ==
    IF k > Len(snapshot) THEN eng
    ELSE check_positions(check_position(eng, now, snapshot[k], current_price,
                                        accepted, exit_quote),
                         now, snapshot, k + 1, current_price, accepted, exit_quote)

\* TradingEngine.execute_trade.  The call of calculate_position_size passes
\* account_balance and risk_percent only, so it raises TypeError for the missing
\* entry_price and stop_loss_price before any order is built; it stands outside the
\* try block, and the statements after it (the order, the position record) never run.
engine_execute_trade(eng, now, action, balance) ==
    IF action = "HOLD" THEN [eng |-> eng, allowed |-> FALSE, outcome |-> "hold"]
    ELSE LET s == should_place_trade(eng.rm, now, balance)
         IN  IF ~s.ret
             THEN [eng |-> [eng EXCEPT !.rm = s.rm], allowed |-> FALSE,
                   outcome |-> "blocked"]
             ELSE [eng |-> [eng EXCEPT !.rm = s.rm], allowed |-> TRUE,
                   outcome |-> "TypeError"]

\* One pass of the while loop of run: what the engine is afterwards, and what happened.
run_iteration(eng, now, data_ok, action, strong, quote, accepted, exit_quote, balance) ==
    IF ~data_ok
    THEN [eng |-> eng,
          iter |-> [action |-> "", strong |-> FALSE, balance |-> None,
                    allowed |-> FALSE, outcome |-> "data_error"]]
    ELSE IF quote = None
    THEN [eng |-> eng,
          iter |-> [action |-> action, strong |-> strong, balance |-> None,
                    allowed |-> FALSE, outcome |-> "price_error"]]
    ELSE LET checked == check_positions(eng, now, eng.positions, 1, quote,
                                        accepted, exit_quote)
         IN  IF ~(action # "HOLD" /\ strong)
             THEN [eng |-> checked,
                   iter |-> [action |-> action, strong |-> strong, balance |-> None,
                             allowed |-> FALSE, outcome |-> "no_trade"]]
             ELSE IF ~RLt(Zero, balance)
             THEN [eng |-> checked,
                   iter |-> [action |-> action, strong |-> strong, balance |-> balance,
                             allowed |-> FALSE, outcome |-> "no_balance"]]
             ELSE LET e == engine_execute_trade(checked, now, action, balance)
                  IN  [eng |-> e.eng,
                       iter |-> [action |-> action, strong |-> strong,
                                 balance |-> balance, allowed |-> e.allowed,
                                 outcome |-> e.outcome]]

\* The try block of the while loop of run up to the sleep.
Iteration(data_ok, action, strong, quote, accepted, exit_quote, balance) ==
    /\ Len(orders) < MaxOrders
    /\ \E r \in {run_iteration(Engine, today, data_ok, action, strong, quote,
                               accepted, exit_quote, balance)} :
           /\ positions' = r.eng.positions
           /\ rm' = r.eng.rm
           /\ orders' = r.eng.orders
           /\ last_update_day' = r.eng.last_update_day
           /\ iter' = r.iter
    /\ UNCHANGED <<today, rcall, account_balance, trades, active_positions, call, req, restVars>>

RunIteration(data_ok, action, strong, quote, accepted, exit_quote, balance) ==
    /\ Iteration(data_ok, action, strong, quote, accepted, exit_quote, balance)
    /\ UNCHANGED loop

NextEngine ==
    \/ \E data_ok \in BOOLEAN, action \in Actions, strong \in BOOLEAN, quote \in Quotes,
          accepted \in BOOLEAN, exit_quote \in Quotes, balance \in EngineBalances :
            RunIteration(data_ok, action, strong, quote, accepted, exit_quote, balance)
    \/ AdvanceDay

SpecEngine == Init /\ [][NextEngine]_vars

(***************************************************************************)
(* DataCollector: start, stop, the loop of _run, and the symbol list        *)
(***************************************************************************)
tradingVars == <<ledgerVars, riskVars, engineVars, report>>

notCollector == <<tradingVars, accountVars, bt, sig>>

notAccounts == <<tradingVars, collectorVars, bt, sig>>

notBacktest == <<tradingVars, collectorVars, accountVars, sig>>

notSignals == <<tradingVars, collectorVars, accountVars, bt>>

\* The thread start() makes next.
NextThread == CHOOSE t \in Threads :
                  /\ workers[t].pc = "unborn"
                  /\ \A u \in Threads : workers[u].pc = "unborn" => t <= u

\* DataCollector.start
Start ==
    /\ caller = "idle"
    /\ is_running \/ \E t \in Threads : workers[t].pc = "unborn"
    /\ IF is_running
       THEN UNCHANGED <<is_running, thread, workers>>
       ELSE /\ is_running' = TRUE
            /\ thread' = NextThread
            /\ workers' = [workers EXCEPT ![NextThread].pc = "test"]
    /\ UNCHANGED <<symbols, caller, stopped, notCollector>>

\* DataCollector.stop up to the join: the flag is cleared and the caller waits.
Stop ==
    /\ caller = "idle"
    /\ IF ~is_running
       THEN UNCHANGED <<is_running, caller, stopped>>
       ELSE /\ is_running' = FALSE
            /\ caller' = "joining"
            /\ stopped' = stopped \cup {thread}
    /\ UNCHANGED <<thread, symbols, workers, notCollector>>

\* thread.join(timeout=5) returns: the thread has ended, or five seconds have passed
\* while it was collecting or asleep for its interval (60 seconds by default).
StopReturn ==
    /\ caller = "joining"
    /\ workers[thread].pc \in {"done", "cycle", "sleep"}
    /\ caller' = "idle"
    /\ UNCHANGED <<is_running, thread, symbols, workers, stopped, notCollector>>

\* _run: the test of the while loop; a cycle begins at the head of the list.
ThreadTest(t) ==
    /\ workers[t].pc = "test"
    /\ workers' = [workers EXCEPT ![t] =
                      IF is_running
                      THEN [pc |-> "cycle", index |-> 1, attempted |-> <<>>,
                            listed |-> {symbols[k] : k \in 1..Len(symbols)}]
                      ELSE [@ EXCEPT !.pc = "done"]]
    /\ UNCHANGED <<is_running, thread, symbols, caller, stopped, notCollector>>

\* run_collection_cycle: the for loop takes the symbol at its index and collects it;
\* failed is whether the collection raised, which is logged and nothing more.
ThreadCollect(t, failed) ==
    /\ workers[t].pc = "cycle"
    /\ workers[t].index <= Len(symbols)
    /\ workers' = [workers EXCEPT ![t].attempted = Append(@, symbols[workers[t].index]),
                                  ![t].index = @ + 1]
    /\ UNCHANGED <<is_running, thread, symbols, caller, stopped, notCollector>>

\* run_collection_cycle: the for loop finds its index past the end of the list.
ThreadEndCycle(t) ==
    /\ workers[t].pc = "cycle"
    /\ workers[t].index > Len(symbols)
    /\ workers' = [workers EXCEPT ![t].pc = "sleep"]
    /\ UNCHANGED <<is_running, thread, symbols, caller, stopped, notCollector>>

\* _run: time.sleep(interval_seconds) returns.
ThreadWake(t) ==
    /\ workers[t].pc = "sleep"
    /\ workers' = [workers EXCEPT ![t].pc = "test"]
    /\ UNCHANGED <<is_running, thread, symbols, caller, stopped, notCollector>>

\* DataCollectorService.add_symbol, from any thread
AddSymbol(symbol) ==
    /\ symbols' = IF \E k \in 1..Len(symbols) : symbols[k] = symbol
                  THEN symbols ELSE Append(symbols, symbol)
    /\ UNCHANGED <<is_running, thread, workers, caller, stopped, notCollector>>

\* DataCollectorService.remove_symbol, from any thread; listed keeps, for each thread,
\* the symbols that have been in the list ever since its cycle began.
RemoveSymbol(symbol) ==
    /\ symbols' = SelectSeq(symbols, LAMBDA x : x # symbol)
    /\ workers' = [t \in Threads |-> [workers[t] EXCEPT !.listed = @ \ {symbol}]]
    /\ UNCHANGED <<is_running, thread, caller, stopped, notCollector>>

ThreadStep(t) ==
    \/ ThreadTest(t)
    \/ \E failed \in BOOLEAN : ThreadCollect(t, failed)
    \/ ThreadEndCycle(t)
    \/ ThreadWake(t)

NextCollector ==
    \/ Start
    \/ Stop
    \/ StopReturn
    \/ \E t \in Threads : ThreadTest(t)
    \/ \E t \in Threads, failed \in BOOLEAN : ThreadCollect(t, failed)
    \/ \E t \in Threads : ThreadEndCycle(t)
    \/ \E t \in Threads : ThreadWake(t)
    \/ \E symbol \in Symbols : AddSymbol(symbol)
    \/ \E symbol \in Symbols : RemoveSymbol(symbol)

SpecCollector == Init /\ [][NextCollector]_vars

\* The scheduler lets every thread that can take a step take one.
SpecCollectorFair == SpecCollector /\ \A t \in Threads : WF_vars(ThreadStep(t))

(***************************************************************************)
(* MultiAccountManager: the registry                                        *)
(***************************************************************************)
AllAccountIds == {account_id_of(b, n, t) : b \in Brokers, n \in AccountNames, t \in 0..MaxClock}

\* The manager takes the value m.
SetManager(m) ==
    /\ accounts' = m.accounts
    /\ api_clients' = m.api_clients
    /\ accounts_file' = m.accounts_file

AddAccount(account_name, broker, api_key, api_secret) ==
    /\ Cardinality(DOMAIN accounts \cup {account_id_of(broker, account_name, clock)})
           <= MaxAccounts
    /\ \E r \in {add_account(MAM, account_name, broker, api_key, api_secret, clock)} :
          /\ SetManager(r.m)
          /\ mcall' = [op |-> "add_account", ret |-> r.ret, before |-> DOMAIN accounts]
    /\ UNCHANGED <<clock, notAccounts>>

UpdateAccount(account_id, api_key, api_secret, is_active) ==
    /\ \E r \in {update_account(MAM, account_id, api_key, api_secret, is_active)} :
          /\ SetManager(r.m)
          /\ mcall' = [op |-> "update_account", ret |-> r.ret]
    /\ UNCHANGED <<clock, notAccounts>>

GetApiClient(account_id) ==
    /\ \E r \in {get_api_client_call(MAM, account_id, clock)} :
          /\ SetManager(r.m)
          /\ mcall' = [op |-> "get_api_client", err |-> r.err, account_id |-> account_id,
                       client |-> r.client]
    /\ UNCHANGED <<clock, notAccounts>>

DeleteAccount(account_id) ==
    /\ \E r \in {delete_account(MAM, account_id)} :
          /\ SetManager(r.m)
          /\ mcall' = [op |-> "delete_account", ret |-> r.ret]
    /\ UNCHANGED <<clock, notAccounts>>

\* A second passes.
Tick ==
    /\ clock < MaxClock
    /\ clock' = clock + 1
    /\ UNCHANGED <<accounts, api_clients, accounts_file, mcall, notAccounts>>

NextAccounts ==
    \/ \E n \in AccountNames, b \in Brokers, k \in ApiKeys, x \in ApiSecrets : AddAccount(n, b, k, x)
    \/ \E a \in AllAccountIds, k \in ApiKeys \cup {PyNone}, x \in ApiSecrets \cup {PyNone}, active \in BOOLEAN : UpdateAccount(a, k, x, active)
    \/ \E a \in AllAccountIds : DeleteAccount(a)
    \/ \E a \in AllAccountIds : GetApiClient(a)
    \/ Tick

SpecAccounts == Init /\ [][NextAccounts]_vars

(***************************************************************************)
(* MultiAccountManager: one trade on several accounts                       *)
(***************************************************************************)
\* The accounts accounts.json holds when the manager is made.
LoadedIds == {account_id_of("delta", "a", 0), account_id_of("binance", "b", 0), account_id_of("delta", "c", 0)}

\* The lists a caller asks for: all three accounts, two in another order, one alone.
RequestLists ==
    {<<account_id_of("delta", "a", 0), account_id_of("binance", "b", 0), account_id_of("delta", "c", 0)>>,
     <<account_id_of("binance", "b", 0), account_id_of("delta", "a", 0)>>,
     <<account_id_of("delta", "c", 0)>>}

OrderTypes == {"market", "limit"}

\* The state after construction with nothing done yet on the trading side.
TradingInit ==
    /\ account_balance = Zero
    /\ trades = <<>>
    /\ active_positions = <<>>
    /\ orders = <<>>
    /\ call = NoCall
    /\ req = NoReq
    /\ rm = RiskManager(MAX_DAILY_LOSS, MAX_POSITION_SIZE)
    /\ today = 0
    /\ last_update_day = -1
    /\ rcall = NoRiskCall
    /\ positions = <<>>
    /\ iter = NoIteration
    /\ loop = NoLoop
    /\ report = NoReport

\* MultiAccountManager.__init__ and load_accounts over a file of three accounts.
InitFanout ==
    /\ TradingInit
    /\ CollectorInit
    /\ accounts = [a \in LoadedIds |-> AccountInfo(a, a[2], a[1], "k1", "s1")]
    /\ api_clients = EmptyDict
    /\ accounts_file = [a \in LoadedIds |-> to_dict_full(accounts[a])]
    /\ clock = 0
    /\ mcall = NoAccountCall
    /\ BacktestInit
    /\ SignalInit

ExecuteTradeOnAccounts(account_ids, order_type, raises) ==
    /\ \A k \in 1..Len(account_ids) :
          account_ids[k] \in DOMAIN accounts =>
              accounts[account_ids[k]].total_trades < MaxTotalTrades
    /\ \E r \in {execute_trade_on_accounts(MAM, account_ids, [order_type |-> order_type], raises, clock)} :
          /\ SetManager(r.m)
          /\ mcall' = [op |-> "execute_trade_on_accounts", account_ids |-> account_ids,
                       raises |-> raises, results |-> r.results, placed |-> r.placed]
    /\ UNCHANGED <<clock, notAccounts>>

NextFanout ==
    \/ \E ids \in RequestLists, ot \in OrderTypes, raises \in SUBSET LoadedIds : ExecuteTradeOnAccounts(ids, ot, raises)
    \/ \E a \in LoadedIds, active \in BOOLEAN : UpdateAccount(a, PyNone, PyNone, active)
    \/ \E a \in LoadedIds : DeleteAccount(a)

SpecFanout == InitFanout /\ [][NextFanout]_vars

(***************************************************************************)
(* Backtester: runs of run_backtest, a bar at a time                        *)
(***************************************************************************)
InitialCapitals == {RInt(100)}

Commissions == {Zero}

PositionSizePcts == {RInt(1)}

\* run_backtest is called: the frame is normalized and the locals are set.  A run
\* keeps nothing from the runs before it, so one run is followed from each start.
RunBacktest(data, initial_capital, commission, position_size_pct) ==
    /\ bt.pc = "idle"
    /\ bt' = bt_start(data, initial_capital, commission, position_size_pct)
    /\ UNCHANGED notBacktest

\* The loop body runs for the next bar.
BacktestBar(strategy_exit, signal, write) ==
    /\ bt.pc = "loop"
    /\ bt.i < Len(bt.df)
    /\ \E b \in {bt_bar(bt, strategy_exit, signal, write)} : bt' = b
    /\ UNCHANGED notBacktest

\* The loop is over: run_backtest closes what is open and returns.
BacktestReturn ==
    /\ bt.pc = "loop"
    /\ bt.i >= Len(bt.df)
    /\ \E b \in {bt_finish(bt)} : bt' = b
    /\ UNCHANGED notBacktest

NextBacktest ==
    \/ \E data \in DataFrames, c \in InitialCapitals, m \in Commissions, pct \in PositionSizePcts : RunBacktest(data, c, m, pct)
    \/ \E strategy_exit \in BOOLEAN, signal \in Signals, write \in BOOLEAN : BacktestBar(strategy_exit, signal, write)
    \/ BacktestReturn

SpecBacktest == Init /\ [][NextBacktest]_vars

(***************************************************************************)
(* TradingEngine holding a position                                        *)
(***************************************************************************)
Sides == {"BUY", "SELL"}

\* The position record execute_trade builds at trading_engine.py:115-124 for an
\* order the broker numbered 1, of quantity 1 at 100.
position_record(side) ==
    [id |-> 1, side |-> side, quantity |-> RInt(1), entry_price |-> RInt(100),
     stop_loss |-> None, take_profit |-> None]

\* The engine after lines 127-130 of execute_trade: the position is in the ledger of
\* the RiskManager with its stop and its target, and the same dictionary is in the
\* engine map.  The sizing call before the try block has to return for the engine to
\* get here.
InitHolding ==
    /\ account_balance = Zero
    /\ trades = <<>>
    /\ active_positions = <<>>
    /\ orders = <<>>
    /\ call = NoCall
    /\ req = NoReq
    /\ \E side \in Sides :
          /\ rm = add_position(RiskManager(MAX_DAILY_LOSS, MAX_POSITION_SIZE),
                               position_record(side))
          /\ positions = rm.positions
    /\ today = 0
    /\ last_update_day = -1
    /\ rcall = NoRiskCall
    /\ iter = NoIteration
    /\ loop = NoLoop
    /\ report = NoReport
    /\ ApartInit

SpecHolding == InitHolding /\ [][NextEngine]_vars

(***************************************************************************)
(* TradingEngine.run and TradingEngine.stop, with the embedded DataCollector *)
(***************************************************************************)
\* The outcomes of a pass that are exceptions raised inside the try block.
IterationErrors == {"data_error", "price_error", "TypeError"}

\* TradingEngine.__init__ with enable_data_collection: the collector is made for the
\* one symbol of the engine and started.
InitRun ==
    /\ TradingInit
    /\ is_running = TRUE
    /\ thread = 1
    /\ symbols = <<"A">>
    /\ workers = [t \in Threads |-> IF t = 1 THEN [Unborn EXCEPT !.pc = "test"] ELSE Unborn]
    /\ caller = "idle"
    /\ stopped = {}
    /\ AccountsInit
    /\ BacktestInit
    /\ SignalInit

\* run is called: is_running = True, and the while loop is at its test.
Run ==
    /\ loop.pc = "idle"
    /\ loop' = [loop EXCEPT !.pc = "test", !.is_running = TRUE]
    /\ UNCHANGED <<positions, iter, ledgerVars, riskVars, restVars>>

\* while self.is_running
LoopTest ==
    /\ loop.pc = "test"
    /\ loop' = [loop EXCEPT !.pc = IF loop.is_running THEN "body" ELSE "returned"]
    /\ UNCHANGED <<positions, iter, ledgerVars, riskVars, restVars>>

\* One pass of the try block: it reaches the sleep of line 222, or an exception takes
\* it to the handler of line 228, which logs and sleeps.
LoopPass(data_ok, action, strong, quote, accepted, exit_quote, balance) ==
    /\ loop.pc = "body"
    /\ Iteration(data_ok, action, strong, quote, accepted, exit_quote, balance)
    /\ loop' = [loop EXCEPT !.pc = IF iter'.outcome \in IterationErrors
                                   THEN "handler_sleep" ELSE "sleep"]

\* time.sleep(interval) inside the try block ends, or Ctrl-C arrives during it: the
\* handler of line 224 clears the flag and breaks.
LoopSleep(interrupted) ==
    /\ loop.pc = "sleep"
    /\ loop' = IF interrupted THEN [loop EXCEPT !.pc = "returned", !.is_running = FALSE]
               ELSE [loop EXCEPT !.pc = "test"]
    /\ UNCHANGED <<positions, iter, ledgerVars, riskVars, restVars>>

\* time.sleep(interval) inside the except block ends, or Ctrl-C arrives during it:
\* the KeyboardInterrupt is raised outside the inner try, the outer except catches
\* Exception only, and run ends with the KeyboardInterrupt.
LoopHandlerSleep(interrupted) ==
    /\ loop.pc = "handler_sleep"
    /\ loop' = IF interrupted THEN [loop EXCEPT !.pc = "raised"]
               ELSE [loop EXCEPT !.pc = "test"]
    /\ UNCHANGED <<positions, iter, ledgerVars, riskVars, restVars>>

\* TradingEngine.stop, called from another thread while run is looping, up to the
\* join inside DataCollector.stop.
EngineStop ==
    /\ loop.pc \notin {"idle", "returned", "raised"}
    /\ ~loop.stop_called
    /\ caller = "idle"
    /\ loop' = [loop EXCEPT !.is_running = FALSE, !.stop_called = TRUE]
    /\ IF ~is_running
       THEN UNCHANGED <<is_running, caller, stopped>>
       ELSE /\ is_running' = FALSE
            /\ caller' = "joining"
            /\ stopped' = stopped \cup {thread}
    /\ UNCHANGED <<thread, symbols, workers, positions, iter, ledgerVars, riskVars, report,
                   accountVars, bt, sig>>

NextRun ==
    \/ Run
    \/ LoopTest
    \/ \E data_ok \in BOOLEAN, action \in Actions, strong \in BOOLEAN, quote \in Quotes,
          accepted \in BOOLEAN, exit_quote \in Quotes, balance \in EngineBalances :
            LoopPass(data_ok, action, strong, quote, accepted, exit_quote, balance)
    \/ \E interrupted \in BOOLEAN : LoopSleep(interrupted)
    \/ \E interrupted \in BOOLEAN : LoopHandlerSleep(interrupted)
    \/ EngineStop
    \/ StopReturn
    \/ \E t \in Threads : ThreadStep(t)

SpecRun == InitRun /\ [][NextRun]_vars

(***************************************************************************)
(* Strategies: calls of generate_signal                                     *)
(***************************************************************************)
MovingAverages == {RInt(1), RInt(2)}

RsiValues == {RInt(20), RInt(40), RInt(60), RInt(80)}

LastCloses == {RInt(98), RInt(100), RInt(102)}

\* What predict returns: nothing, or one of the labels -1, 0, 1.
Predictions == {<<>>, <<-1>>, <<0>>, <<1>>}

\* What predict_proba returns for the row: the probabilities of -1, 0 and 1, or of
\* a model that knows one class only.
Probabilities == {<<R(2, 10), R(5, 10), R(3, 10)>>, <<RInt(1)>>}

\* The numbers of bars of a frame: one too few for the chart patterns, and enough.
BarCounts == {49, 50}

\* The patterns a detector returns: their type, breakout, is_fake, strength and
\* confidence.
Patterns ==
    [type : {"Bullish", "Bearish"}, breakout : BOOLEAN, is_fake : BOOLEAN,
     strength : {R(3, 10), R(7, 10)}, confidence : {R(7, 10)}]

\* What detect_all_patterns returns: no pattern, one, or two.
PatternLists == {<<>>} \cup {<<a>> : a \in Patterns} \cup {<<a, b>> : a, b \in Patterns}

MAGenerateSignal(enough, prev_ma_fast, prev_ma_slow, ma_fast, ma_slow) ==
    /\ sig' = [strategy |-> "Moving Average Crossover",
               result |-> ma_generate_signal(enough, prev_ma_fast, prev_ma_slow, ma_fast,
                                             ma_slow, RInt(100))]
    /\ UNCHANGED notSignals

RSIGenerateSignal(enough, prev_rsi, current_rsi) ==
    /\ sig' = [strategy |-> "RSI Momentum",
               result |-> rsi_generate_signal(enough, prev_rsi, current_rsi, RInt(100))]
    /\ UNCHANGED notSignals

BBGenerateSignal(enough, current_price) ==
    /\ sig' = [strategy |-> "Bollinger Bands",
               result |-> bb_generate_signal(enough, RInt(99), RInt(101), current_price)]
    /\ UNCHANGED notSignals

MLGenerateSignal(is_trained, x_empty, raises, prediction, prob) ==
    /\ sig' = [strategy |-> "ML-Based Strategy", prediction |-> prediction,
               result |-> ml_generate_signal(is_trained, x_empty, raises, prediction,
                                             prob, RInt(100))]
    /\ UNCHANGED notSignals

ChartGenerateSignal(bars, patterns) ==
    /\ sig' = [strategy |-> "Chart Patterns", bars |-> bars, patterns |-> patterns,
               result |-> chart_generate_signal(bars, patterns, RInt(100))]
    /\ UNCHANGED notSignals

NextSignals ==
    \/ \E enough \in BOOLEAN, pf, ps, f, sl \in MovingAverages : MAGenerateSignal(enough, pf, ps, f, sl)
    \/ \E enough \in BOOLEAN, prev \in RsiValues, cur \in RsiValues : RSIGenerateSignal(enough, prev, cur)
    \/ \E enough \in BOOLEAN, price \in LastCloses : BBGenerateSignal(enough, price)
    \/ \E t, e, r \in BOOLEAN, pred \in Predictions, prob \in Probabilities : MLGenerateSignal(t, e, r, pred, prob)
    \/ \E bars \in BarCounts, patterns \in PatternLists : ChartGenerateSignal(bars, patterns)

SpecSignals == Init /\ [][NextSignals]_vars

(***************************************************************************)
(* Properties of the ledger                                                *)
(***************************************************************************)
\* The price ordering of the data model: strict, and side-aware.
Ordered(position_type, entry_price, sl_price, target_price) ==
    IF position_type = "LONG"
    THEN RLt(sl_price, entry_price) /\ RLt(entry_price, target_price)
    ELSE RLt(target_price, entry_price) /\ RLt(entry_price, sl_price)

Terminal == {"SL_HIT", "TARGET_HIT", "CLOSED"}

NoDuplicates(seq) == \A i, j \in 1..Len(seq) : i # j => seq[i] # seq[j]

InList(seq, x) == \E k \in 1..Len(seq) : seq[k] = x

C2_PriceOrdering ==
    \A i \in 1..Len(trades) :
        Ordered(trades[i].position_type, trades[i].entry_price,
                trades[i].sl_price, trades[i].target_price)

AllowedMoves ==
    {<<"PENDING", "ACTIVE">>, <<"PENDING", "CLOSED">>, <<"ACTIVE", "SL_HIT">>,
     <<"ACTIVE", "TARGET_HIT">>, <<"ACTIVE", "CLOSED">>}

\* C3: a trade's status moves only PENDING -> ACTIVE, ACTIVE -> SL_HIT | TARGET_HIT |
\* CLOSED and PENDING -> CLOSED; no call changes the status, the exit price or the
\* pnl of a trade that is SL_HIT, TARGET_HIT or CLOSED; no trade leaves the ledger.
C3_StatusMachine ==
    [][/\ Len(trades') >= Len(trades)
       /\ \A i \in 1..Len(trades) :
            /\ \/ trades'[i].status = trades[i].status
               \/ <<trades[i].status, trades'[i].status>> \in AllowedMoves
            /\ trades[i].status \in Terminal =>
                 /\ trades'[i].status = trades[i].status
                 /\ trades'[i].exit_price = trades[i].exit_price
                 /\ trades'[i].pnl = trades[i].pnl]_vars

\* A close_trade call was refused while every trade of the ledger was stopped out.
C3_Witness ==
    /\ Len(trades) >= 1
    /\ \A i \in 1..Len(trades) : trades[i].status = "SL_HIT" /\ trades[i].pnl # Zero
    /\ call = [op |-> "close_trade", err |-> "ValueError"]

\* C4: activate_trade succeeds only on a PENDING trade, which it makes ACTIVE and
\* appends to the active-positions list; for an unknown id or any other status it
\* raises ValueError and changes nothing; no trade is in the list twice.
C4_ActivateOnlyPending ==
    [][/\ \A id \in TradeIds, a \in Prices \cup {None} :
            ActivateTrade(id, a) =>
               LET i == get_trade(TS, id)
               IN  IF i # 0 /\ trades[i].status = "PENDING"
                   THEN /\ call'.err = "none"
                        /\ trades'[i].status = "ACTIVE"
                        /\ active_positions' = Append(active_positions, id)
                   ELSE /\ call'.err = "ValueError"
                        /\ UNCHANGED tsVars
       /\ NoDuplicates(active_positions')]_vars

\* An activate_trade call was refused while every trade of the ledger was ACTIVE.
C4_Witness ==
    /\ Len(trades) >= 1
    /\ \A i \in 1..Len(trades) : trades[i].status = "ACTIVE"
    /\ Len(active_positions) = Len(trades)
    /\ call = [op |-> "activate_trade", err |-> "ValueError"]

\* C5: close_trade moves a PENDING or ACTIVE trade to CLOSED, records the exit price
\* and removes the trade from the active-positions list; on a trade that is SL_HIT,
\* TARGET_HIT or CLOSED (or unknown) it raises and changes nothing.
C5_CloseTrade ==
    [][\A id \in TradeIds, p \in Prices :
          CloseTrade(id, p) =>
             LET i == get_trade(TS, id)
             IN  IF i # 0 /\ trades[i].status \in {"PENDING", "ACTIVE"}
                 THEN /\ trades'[i].status = "CLOSED"
                      /\ trades'[i].exit_price = RRound(p, 8)
                      /\ ~InList(active_positions', id)
                 ELSE /\ call'.err = "ValueError"
                      /\ UNCHANGED tsVars]_vars

\* C9: a trade created without a quantity, with a positive balance and risk percent,
\* has the quantity (balance * risk_percent / 100) / |entry - sl| (to 8 decimals),
\* LONG or SHORT, so a quantity above zero, and risk_amount = balance * risk_percent / 100.
C9_AutoQuantity ==
    (/\ call = [op |-> "create_trade", err |-> "none"]
     /\ req # NoReq
     /\ req.quantity = None
     /\ RLt(Zero, account_balance)
     /\ RLt(Zero, req.risk_percent))
    => LET t    == trades[Len(trades)]
           risk == RDiv(RMul(account_balance, req.risk_percent), RInt(100))
           size == RDiv(risk, RAbs(RSub(req.entry_price, req.sl_price)))
       IN  /\ t.quantity = RRound(size, 8)
           /\ RLt(Zero, t.quantity)
           /\ t.risk_amount = RRound(risk, 2)

OppositeSide(position_type) == IF position_type = "LONG" THEN "SELL" ELSE "BUY"

\* C6: whenever a trade is SL_HIT or TARGET_HIT while the Trade Manager is in use, an
\* opposite-side market order (SELL for LONG, BUY for SHORT) for the trade's full
\* quantity has been placed at the broker.
C6_ExitOrderPlaced ==
    \A i \in 1..Len(trades) :
        trades[i].status \in {"SL_HIT", "TARGET_HIT"} =>
            InList(orders, MarketOrder(OppositeSide(trades[i].position_type),
                                       trades[i].quantity))

\* C7: once the accumulated daily P&L stands at or below -max_daily_loss,
\* should_place_trade answers false on every call of that calendar date, whatever the
\* balance; on the first call after the date has advanced the counter is reset to zero
\* and, for a balance of at least 10, the answer is true.
C7_DailyLossBreaker ==
    [][\A balance \in RiskBalances :
          ShouldPlaceTrade(balance) =>
             /\ (RLe(rm.daily_pnl, RNeg(rm.max_daily_loss)) /\ last_update_day = today)
                   => rcall'.ret = FALSE
             /\ (today > rm.daily_reset_time /\ RLe(MinBalance, balance))
                   => rm'.daily_pnl = Zero /\ rcall'.ret = TRUE]_vars

\* C10: calculate_position_size(balance, entry, stop, risk_percent) returns
\* (balance * risk_percent / 100) / (entry - stop) capped at max_position_size (to 8
\* decimals) when entry > stop, 0 when entry <= stop or when that value is below
\* 0.001; for (100000, 100, 98, 1) it returns 500 unless max_position_size is smaller.
C10_PositionSize ==
    rcall.op = "calculate_position_size" =>
        LET balance == rcall.args[1]
            entry   == rcall.args[2]
            stop    == rcall.args[3]
            percent == rcall.args[4]
            value   == RDiv(RDiv(RMul(balance, percent), RInt(100)), RSub(entry, stop))
            capped  == IF RLt(rm.max_position_size, value)
                       THEN rm.max_position_size ELSE value
        IN  /\ RLe(entry, stop) => rcall.ret = Zero
            /\ (RLt(stop, entry) /\ RLt(capped, R(1, 1000))) => rcall.ret = Zero
            /\ (RLt(stop, entry) /\ ~RLt(capped, R(1, 1000)))
                  => rcall.ret = RRound(capped, 8)
            /\ rcall.args = <<RInt(100000), RInt(100), RInt(98), RInt(1)>>
                  => rcall.ret = IF RLt(rm.max_position_size, RInt(500))
                                 THEN rm.max_position_size ELSE RInt(500)

\* The example of the text, answered with 500 by a RiskManager whose cap is above it.
C10_Witness ==
    /\ rcall.op = "calculate_position_size"
    /\ rcall.args = <<RInt(100000), RInt(100), RInt(98), RInt(1)>>
    /\ rcall.ret = RInt(500)
    /\ rm.max_position_size = RInt(1000)

PositionIds(seq) == {seq[k].id : k \in 1..Len(seq)}

\* C8: after a pass of the engine loop in which the signal was BUY or SELL with
\* confidence above 0.5, the balance positive and the Risk Manager allowed trading, a
\* market order on the signal's side has been placed and the position is on record;
\* the Risk Manager's ledger and the engine's map hold the same position ids.
C8_EnginePlacesOrder ==
    /\ PositionIds(positions) = PositionIds(rm.positions)
    /\ (/\ iter.action \in {"BUY", "SELL"}
        /\ iter.strong
        /\ iter.balance # None
        /\ RLt(Zero, iter.balance)
        /\ iter.allowed)
       => /\ \E k \in 1..Len(orders) :
                orders[k].type = "MARKET" /\ orders[k].side = iter.action
          /\ positions # <<>>

\* C11: the win_rate of get_trade_summary is the percentage of the closed trades
\* (SL_HIT, TARGET_HIT, CLOSED) that have a positive pnl, so it lies between 0 and 100
\* and an ACTIVE trade's unrealized profit is not counted.
C11_WinRate ==
    call.op = "get_trade_summary" =>
        LET closed == SelectSeq(trades, LAMBDA t : t.status \in Terminal)
            won    == SelectSeq(closed, LAMBDA t : RLt(Zero, t.pnl))
        IN  /\ report.summary.win_rate =
                  IF closed = <<>> THEN Zero
                  ELSE RRound(RMul(R(Len(won), Len(closed)), RInt(100)), 2)
            /\ RLe(Zero, report.summary.win_rate)
            /\ RLe(report.summary.win_rate, RInt(100))

\* C12: what get_dashboard returns describes the ledger as the price refresh leaves
\* it: every trade of the returned active-trade list is ACTIVE, the list is the list
\* of the ACTIVE trades, the summary is the summary of the ledger, and the summary's
\* active_trades equals the length of the list.
C12_DashboardAfterRefresh ==
    call.op = "get_dashboard" =>
        /\ \A k \in 1..Len(report.active_trades) : report.active_trades[k].status = "ACTIVE"
        /\ [k \in 1..Len(report.active_trades) |-> report.active_trades[k].id]
              = get_active_trades(TS)
        /\ report.summary = get_trade_summary(TS)
        /\ report.summary.active_trades = Len(report.active_trades)

\* A thread that is in the loop of _run and will pass its test again.
Looping(t) == workers[t].pc \in {"test", "cycle", "sleep"} /\ is_running

\* C13: at most one background thread of a DataCollector is alive and looping at any
\* time, over any sequence of start() and stop() calls.
C13_OneThread == Cardinality({t \in Threads : Looping(t)}) <= 1

\* C14: a thread that was running when stop() was called eventually leaves its loop
\* and ends, whatever calls follow the stop().
C14_StopEndsThread == \A t \in Threads : (t \in stopped) ~> (workers[t].pc = "done")

Count(seq, x) == Cardinality({k \in 1..Len(seq) : seq[k] = x})

\* C15: in a collection cycle every symbol of the monitored list is attempted exactly
\* once: at the end of a cycle no symbol has been attempted twice, and every symbol
\* that was in the list throughout the cycle has been attempted.
C15_EverySymbolOnce ==
    \A t \in Threads :
        workers[t].pc = "sleep" =>
            /\ \A x \in Symbols : Count(workers[t].attempted, x) <= 1
            /\ \A x \in workers[t].listed : Count(workers[t].attempted, x) = 1

C17_FreshAccountId ==
    mcall.op = "add_account" =>
        /\ mcall.ret \notin mcall.before
        /\ DOMAIN accounts = mcall.before \cup {mcall.ret}
        /\ Cardinality(DOMAIN accounts) = Cardinality(mcall.before) + 1

\* C18: during run_backtest the list of open positions never holds more than one, and
\* a position is opened only on a bar where none is open: the position opened before
\* it has been closed by then.
C18_SinglePosition ==
    bt.pc # "idle" =>
        /\ Len(bt.positions) <= 1
        /\ \A j \in 2..Len(bt.opened) :
              \E k \in 1..Len(bt.trades) :
                  /\ bt.trades[k].entry_time = bt.opened[j - 1]
                  /\ bt.trades[k].exit_time <= bt.opened[j]

\* A run holds the position it opened at an earlier bar, and the signal of the bar it
\* has just been at asked for a position again.
C18_Witness ==
    /\ bt.pc = "loop"
    /\ Len(bt.positions) = 1
    /\ bt.signal \in {"BUY", "SELL"}
    /\ bt.opened = <<bt.positions[1].entry_time>>
    /\ bt.positions[1].entry_time < bt.df[bt.i].timestamp

\* The trades of the ledger a position of a given entry time closed into.
TradesOf(entry_time) == {k \in 1..Len(bt.trades) : bt.trades[k].entry_time = entry_time}

\* C19: when run_backtest returns, every position that was opened is in the returned
\* ledger exactly once, and a position still open after the last bar is in it with the
\* last close of the frame as its exit price and end_of_data as its exit reason.
C19_AllPositionsClosed ==
    bt.pc = "done" =>
        /\ Len(bt.trades) = Len(bt.opened)
        /\ \A j \in 1..Len(bt.opened) : Cardinality(TradesOf(bt.opened[j])) = 1
        /\ \A j \in 1..Len(bt.positions) :
              \E k \in TradesOf(bt.positions[j].entry_time) :
                  /\ bt.trades[k].exit_reason = "end_of_data"
                  /\ bt.trades[k].exit_price = bt.df[Len(bt.df)].close
        /\ bt.total_trades = Len(bt.trades)

\* A run has returned with one trade closed in the loop and one closed at the end.
C19_Witness ==
    /\ bt.pc = "done"
    /\ Len(bt.trades) = 2
    /\ bt.trades[1].exit_reason # "end_of_data"
    /\ bt.trades[2].exit_reason = "end_of_data"

\* C20: the loop visits the bars after the warm-up one by one in ascending order of
\* time, and generate_signal is given the rows of the caller's frame up to and
\* including the bar visited, no later row, whatever a strategy wrote into the frames
\* it was given at earlier bars.
C20_NoLookAhead ==
    bt.pc \in {"loop", "done", "raised"} =>
        /\ \A k \in 1..Len(bt.visited) : bt.visited[k] = min_period + k - 1
        /\ \A j \in 1..(Len(bt.df) - 1) : bt.df[j].timestamp <= bt.df[j + 1].timestamp
        /\ bt.df = normalize_data(bt.data)
        /\ bt.visited # <<>> =>
              LET n == bt.visited[Len(bt.visited)]
              IN  /\ Len(bt.passed) = n + 1
                  /\ bt.passed = SubSeq(normalize_data(bt.data), 1, n + 1)
                  /\ \A j \in 1..(n + 1) : bt.passed[j].timestamp <= bt.df[n + 1].timestamp

\* The loop has been at three bars, of a frame whose rows came newest first.
C20_Witness ==
    /\ bt.pc = "loop"
    /\ Len(bt.visited) = 3
    /\ bt.data # bt.df
    /\ Len(bt.passed) = min_period + 3

\* C24: for every trade of the ledger, in every reachable state, risk_amount is
\* |entry_price - sl_price| * quantity and reward_amount is |target_price - entry_price|
\* * quantity, to the two decimals kept, and risk_reward_ratio is reward over risk to
\* two decimals (0 when the risk is 0), also after activate_trade has put a fill price
\* in the place of the entry price.
C24_RiskReward ==
    \A i \in 1..Len(trades) :
        LET t == trades[i]
            risk   == RMul(RAbs(RSub(t.entry_price, t.sl_price)), t.quantity)
            reward == RMul(RAbs(RSub(t.target_price, t.entry_price)), t.quantity)
        IN  /\ t.risk_amount = RRound(risk, 2)
            /\ t.reward_amount = RRound(reward, 2)
            /\ t.risk_reward_ratio = IF RLt(Zero, risk) THEN RRound(RDiv(reward, risk), 2)
                                     ELSE Zero

\* C28: in every reachable state of TradeSetup, also after a call that raised part-way,
\* the active-positions list holds exactly the trades whose status is ACTIVE, each
\* once: get_long_positions and get_short_positions together return the trades that
\* get_active_trades returns.
C28_ActiveListMatchesStatus ==
    /\ NoDuplicates(active_positions)
    /\ {active_positions[k] : k \in 1..Len(active_positions)}
           = {get_active_trades(TS)[k] : k \in 1..Len(get_active_trades(TS))}
    /\ Len(side_positions(TS, "LONG")) + Len(side_positions(TS, "SHORT"))
           = Len(get_active_trades(TS))

\* C29: a step that sends an entry order (a limit order, the only kind execute_trade
\* places) sends one, and sends it for a trade that was PENDING before the step and
\* is ACTIVE after it; so no entry order goes out for a trade that is ACTIVE or
\* closed, and no trade id gets a second one.
C29_EntryOrderOnlyForPending ==
    [][\A k \in (Len(orders) + 1)..Len(orders') :
           orders'[k].type = "LIMIT" =>
               /\ Len(orders') = Len(orders) + 1
               /\ \E i \in 1..Len(trades) :
                     /\ trades[i].status = "PENDING"
                     /\ trades'[i].status = "ACTIVE"]_vars

\* C23: after initialize_account the balance is 10,000 whenever the answer of the
\* broker held no balance: the call raised, the payload has none of the known shapes,
\* or the payload itself reports the failure.
C23_DefaultWhenNoBalance ==
    call.op = "initialize_account" =>
        LET p == call.balance_data
        IN  (\/ p.raised
             \/ ~p.is_dict
             \/ p.error
             \/ (~p.has_result /\ ~p.has_balances /\ p.available_balance = None))
            => account_balance = DefaultBalance

C26_FileMatchesMemory ==
    mcall.op \in {"add_account", "update_account", "delete_account"} =>
        LET loaded == load_accounts(accounts_file)
        IN  /\ DOMAIN loaded = DOMAIN accounts
            /\ \A a \in DOMAIN accounts :
                  /\ loaded[a].account_name = accounts[a].account_name
                  /\ loaded[a].broker = accounts[a].broker
                  /\ loaded[a].api_key = accounts[a].api_key
                  /\ loaded[a].api_secret = accounts[a].api_secret
                  /\ loaded[a].is_active = accounts[a].is_active

\* update_account has just returned True, and the registry holds an account added
\* under the broker name "Binance" that has the second key and is switched off.
C26_Witness ==
    /\ mcall.op = "update_account"
    /\ mcall.ret
    /\ \E a \in DOMAIN accounts :
          /\ a[1] = "Binance"
          /\ accounts[a].api_key = "k2"
          /\ ~accounts[a].is_active

\* C27: every cached client belongs to a registered account and is the client of the
\* broker and the credentials the account has now, and so is the client
\* get_api_client returns, cached or new.
C27_ClientMatchesAccount ==
    /\ \A a \in DOMAIN api_clients :
          /\ a \in DOMAIN accounts
          /\ api_clients[a] = build_client(accounts[a])
    /\ (mcall.op = "get_api_client" /\ mcall.err = "none") =>
          mcall.client = build_client(accounts[mcall.account_id])

\* C25: an exception raised inside a pass of the loop of run leaves the run flag true
\* and the loop sleeps and goes on to its next test; run is over only with the run
\* flag false; and once stop() has been called the loop ends at its next test, with
\* the flag of the embedded DataCollector cleared.
C25_LoopSurvivesExceptions ==
    /\ [][(loop.pc = "body" /\ loop'.pc # "body" /\ iter'.outcome \in IterationErrors)
              => (loop'.pc = "handler_sleep" /\ loop'.is_running)]_vars
    /\ [][(loop.pc = "handler_sleep" /\ loop'.pc # "handler_sleep")
              => loop'.pc = "test"]_vars
    /\ [](loop.pc \in {"returned", "raised"} => ~loop.is_running)
    /\ [][(loop.stop_called /\ loop.pc = "test") => loop'.pc \in {"test", "returned"}]_vars
    /\ [](loop.stop_called => ~is_running)

\* A pattern with a confirmed breakout, not flagged fake, of strength 0.5 at least.
Qualifies(pattern) ==
    pattern.breakout /\ ~pattern.is_fake /\ RLe(R(1, 2), pattern.strength)

\* C21: ChartPatternStrategy.generate_signal, given 50 bars or more and patterns of
\* which one at least qualifies, raises nothing and returns BUY when the qualifying
\* pattern that ranks first is Bullish and SELL when it is Bearish.
C21_BreakoutGivesSignal ==
    (/\ sig.strategy = "Chart Patterns"
     /\ sig.bars >= 50
     /\ \E k \in 1..Len(sig.patterns) : Qualifies(sig.patterns[k]))
    => LET q == SelectSeq(sig.patterns, Qualifies)
       IN  /\ sig.result.err = "none"
           /\ sig.result.action = IF best_pattern(q).type = "Bullish" THEN "BUY" ELSE "SELL"

\* C22: every signal a generate_signal returns with the action HOLD has confidence 0.
C22_HoldHasNoConfidence ==
    (/\ sig.strategy # "init"
     /\ sig.result.err = "none"
     /\ sig.result.action = "HOLD")
    => sig.result.confidence = Zero

=============================================================================
